---- MODULE Spec2Model ----
(***************************************************************************)
(* Model of the actual-mcp tool dispatcher with its tool catalog, the       *)
(* engine connection lifecycle (actual-api.ts), the update-transaction     *)
(* tool (parser, data fetcher with the split-transaction guard, handler),  *)
(* the get-budget-month tool, the envelope builders, and the               *)
(* create-transaction tool (by IDs, and by names).                         *)
(*                                                                         *)
(* JavaScript values are tagged records, so that `typeof`, `=== undefined` *)
(* and truthiness are computed as the code computes them.  Decimal amounts *)
(* are carried as integer thousandths (10505 is 10.505); the amount        *)
(* converter computes on the IEEE 754 doubles they denote.                 *)
(***************************************************************************)
EXTENDS Integers, Sequences, FiniteSets, TLC

\* ------------------------------------------------------------------------
\* JavaScript values
\* ------------------------------------------------------------------------
Undef == [t |-> "undefined"]
Str(x) == [t |-> "string", s |-> x]
Num(x) == [t |-> "number", n |-> x]
Bool(x) == [t |-> "boolean", b |-> x]
Arr(x) == [t |-> "array", a |-> x]
Obj(x) == [t |-> "object", o |-> x]

\* !v
Falsy(v) ==
  \/ v.t = "undefined"
  \/ v.t = "string" /\ v.s = ""
  \/ v.t = "number" /\ v.n = 0
  \/ v.t = "boolean" /\ ~v.b

\* a || b
OrElse(a, b) == IF Falsy(a) THEN b ELSE a

\* ------------------------------------------------------------------------
\* Bounds and input domains
\* ------------------------------------------------------------------------
MaxSubs == 2

Sessions == {"s1"}
ConcSessions == {"s1", "s2"}

TxnId == "txn-123"

\* raw subtransaction entries as a caller sends them
SubEntries ==
  { [amount |-> Num(30000), categoryId |-> Str("cat-1"), notes |-> Str("Split 1")],
    [amount |-> Num(20250), categoryId |-> Str("cat-2"), notes |-> Undef] }

RECURSIVE SeqsUpTo(_, _)
SeqsUpTo(S, n) ==
  IF n = 0 THEN {<<>>}
  ELSE LET shorter == SeqsUpTo(S, n - 1)
       IN shorter \cup {Append(q, e) : q \in {x \in shorter : Len(x) = n - 1}, e \in S}

SubLists == SeqsUpTo(SubEntries, MaxSubs)

\* raw arguments of update-transaction
ArgObjects ==
  { Obj(r) : r \in
    [ transactionId : {Undef, Str(TxnId)},
      date : {Undef, Str("2025-02-20"), Num(12345)},
      categoryId : {Undef, Str("cat-456")},
      payeeId : {Undef, Str("payee-789")},
      notes : {Undef, Str(""), Str("note")},
      amount : {Undef, Num(0), Num(50250)},
      cleared : {Undef, Bool(TRUE), Bool(FALSE)},
      subtransactions : {Undef} \cup {Arr(l) : l \in SubLists} ] }

UPDATE_TOOL == "update-transaction"
GET_BUDGET_MONTH == "get-budget-month"

\* the schema names of the tools registered in tools/index.ts
readTools ==
  {"get-transactions", "spending-by-category", "balance-history", "get-accounts",
   "get-grouped-categories", "get-payees", "get-budget-months", GET_BUDGET_MONTH}

writeTools ==
  {"create-category", "update-category", "delete-category", "create-category-group",
   "update-category-group", "delete-category-group", "create-payee", "update-payee",
   "delete-payee", UPDATE_TOOL, "create-transaction", "delete-transaction",
   "set-budget-amount", "set-budget-carryover", "hold-budget-for-next-month",
   "reset-budget-hold"}

\* raw arguments of get-budget-month
BudgetMonthArgs ==
  { Obj(r) : r \in [ year : {Num(2025), Str("invalid")}, month : {Num(7), Num(12)} ] }

Requests ==
  { [name |-> UPDATE_TOOL, arguments |-> a] : a \in ArgObjects \cup {Undef} }
    \cup { [name |-> GET_BUDGET_MONTH, arguments |-> a] : a \in BudgetMonthArgs }
    \cup { [name |-> "no-such-tool", arguments |-> Undef] }

ClearedOnlyArgs ==
  Obj([transactionId |-> Str(TxnId), date |-> Undef, categoryId |-> Undef,
       payeeId |-> Undef, notes |-> Undef, amount |-> Undef,
       cleared |-> Bool(TRUE), subtransactions |-> Undef])

EmptySubsArgs ==
  Obj([transactionId |-> Str(TxnId), date |-> Undef, categoryId |-> Str("cat-456"),
       payeeId |-> Undef, notes |-> Undef, amount |-> Undef,
       cleared |-> Undef, subtransactions |-> Arr(<<>>)])

\* the requests sent when two sessions are open at once
ConcRequests ==
  { [name |-> UPDATE_TOOL, arguments |-> ClearedOnlyArgs],
    [name |-> UPDATE_TOOL, arguments |-> EmptySubsArgs],
    [name |-> GET_BUDGET_MONTH, arguments |-> Obj([year |-> Num(2025), month |-> Num(12)])],
    [name |-> "no-such-tool", arguments |-> Undef] }

ERR_YEAR_MONTH == "Year and month must be numbers"

\* ------------------------------------------------------------------------
\* Error messages
\* ------------------------------------------------------------------------
NoError == "null"
ERR_ENGINE == "engine call failed"
ERR_NO_BUDGETS == "No budgets found. Please create a budget in Actual first."
ERR_ARGS == "Arguments must be an object"
ERR_TXN_ID == "transactionId is required and must be a string"
ERR_EMPTY_SUBS == "Cannot set subtransactions to an empty array. This operation can corrupt split transactions and cause app crashes. To convert a split transaction to a regular transaction, delete the split and create a new transaction instead."
ERR_NO_FIELDS == "No fields to update provided"
ERR_UNKNOWN_TOOL(name) == "Unknown tool " \o name \o " not found"

BudgetId == "budget-1"
NoBudget == "null"

VARIABLES
  pc,                  \* per session: position of the request handler / tool handler
  caller,              \* per session: who awaits initActualApi ("dispatch" or "fetcher")
  tpc,                 \* per session: position of the dispatcher's finally block
  request,             \* per session: the tool-call request of the session
  parsedInput,         \* per session: the parsed update input (Undef before parsing)
  result,              \* per session: the CallToolResult produced (Undef before)
  escaped,             \* per session: error thrown out of the request handler
  events,              \* per session: engine calls and handler milestones, in order
  updateCalls,         \* per session: payloads passed to api.updateTransaction
  initialized, initializing, initializationError, currentBudgetId, apiInitialized,
  engineInit,          \* engine: api.init is in effect
  engineBudget,        \* engine: the budget that is loaded
  engineInitCalls,     \* engine: api.init calls received since the last completed shutdown
  awaitedFailure,      \* per session: an initialization failed while it waited in initActualApi
  enableWrite,         \* the write flag setupTools was called with
  builderOptions,      \* envelope builder: the options it is called with
  builderResponse,     \* envelope builder: what it returned (Undef before the call)
  createArgs,          \* create-transaction: the raw arguments
  createInput,         \* create-transaction: the parsed input (Undef before parsing)
  createPc,            \* create-transaction: position of the handler
  locals,              \* create-transaction: local variables of createTransaction
  engineData,          \* create-transaction: accounts, payees, categories of the budget
  engineLog,           \* create-transaction: the engine calls made, in order
  createResult,        \* create-transaction: the CallToolResult (Undef before)
  decimalAmount,       \* amount converter: the decimal amount, in thousandths
  minorUnits,          \* amount converter: convertToCents of it (Undef before)
  majorUnits,          \* amount converter: convertFromCents of that (Undef before)
  server,              \* logger: the connected server (NoServer when null)
  logQueue,            \* logger: the queued messages
  logLevels,           \* logger: logger name -> numeric level
  allowConsole,        \* logger: console fallback enabled
  loggingMessages,     \* logger: the sendLoggingMessage calls made, in order
  logCalls,            \* logger: number of log calls made so far
  searchInput,         \* search-transactions: the parsed input
  searchPc,            \* search-transactions: position of fetch
  searchQuery,         \* search-transactions: the filters of the query built so far
  totalCount,          \* search-transactions: the local totalCount (Undef before)
  searchResult,        \* search-transactions: what fetch returned (Undef before)
  sessions,            \* SSE: the session table, session ID -> transport
  openStreams,         \* SSE: the transports whose event stream is open
  createdSessions,     \* SSE: number of transports created so far
  postResponse,        \* SSE: the last POST /messages and its response (Undef before)
  sseRunning           \* SSE: the process has not exited

serverVars == <<pc, caller, tpc, request, parsedInput, result, escaped, events, updateCalls,
                initialized, initializing, initializationError, currentBudgetId,
                apiInitialized, engineInit, engineBudget, engineInitCalls, awaitedFailure>>

builderVars == <<builderOptions, builderResponse>>

createVars == <<createArgs, createInput, createPc, locals, engineData, engineLog,
                createResult>>

amountVars == <<decimalAmount, minorUnits, majorUnits>>

\* the parts that are not tools of the server
loggerVars == <<server, logQueue, logLevels, allowConsole, loggingMessages, logCalls>>

searchVars == <<searchInput, searchPc, searchQuery, totalCount, searchResult>>

sseVars == <<sessions, openStreams, createdSessions, postResponse, sseRunning>>

otherVars == <<amountVars, loggerVars, searchVars, sseVars>>

\* what the steps of the tool-call request handler never write
restVars == <<enableWrite, builderVars, createVars, otherVars>>

vars == <<serverVars, enableWrite, builderVars, createVars, otherVars>>

moduleVars == <<initialized, initializing, initializationError, currentBudgetId, apiInitialized>>
engineVars == <<engineInit, engineBudget, engineInitCalls>>

Live == DOMAIN pc

InitFor(ss, reqs) ==
  /\ pc = [s \in ss |-> "idle"]
  /\ caller = [s \in ss |-> "dispatch"]
  /\ tpc = [s \in ss |-> "none"]
  /\ request \in [ss -> reqs]
  /\ parsedInput = [s \in ss |-> Undef]
  /\ result = [s \in ss |-> Undef]
  /\ escaped = [s \in ss |-> NoError]
  /\ events = [s \in ss |-> <<>>]
  /\ updateCalls = [s \in ss |-> <<>>]
  /\ initialized = FALSE
  /\ initializing = FALSE
  /\ initializationError = NoError
  /\ currentBudgetId = NoBudget
  /\ apiInitialized = FALSE
  /\ engineInit = FALSE
  /\ engineBudget = NoBudget
  /\ engineInitCalls = 0
  /\ awaitedFailure = [s \in ss |-> FALSE]

\* no envelope-builder call under way
BuilderIdle == builderOptions = Undef /\ builderResponse = Undef

\* no create-transaction invocation under way
CreateIdle ==
  /\ createArgs = Undef
  /\ createInput = Undef
  /\ createPc = "none"
  /\ locals = Undef
  /\ engineData = Undef
  /\ engineLog = <<>>
  /\ createResult = Undef

\* no amount conversion under way
AmountIdle == decimalAmount = 0 /\ minorUnits = Undef /\ majorUnits = Undef

\* LogLevelMap
LogLevelMap ==
  [emergency |-> 0, alert |-> 1, critical |-> 2, error |-> 3,
   warning |-> 4, notice |-> 5, info |-> 6, debug |-> 7]

NoServer == "null"

\* the logger as constructed
LoggerIdle ==
  /\ server = NoServer
  /\ logQueue = <<>>
  /\ logLevels = [n \in {"."} |-> LogLevelMap["info"]]
  /\ allowConsole = FALSE
  /\ loggingMessages = <<>>
  /\ logCalls = 0

\* no search under way
SearchIdle ==
  /\ searchInput = Undef
  /\ searchPc = "none"
  /\ searchQuery = <<>>
  /\ totalCount = Undef
  /\ searchResult = Undef

\* the SSE endpoints as set up: an empty session table
SseIdle ==
  /\ sessions = <<>>
  /\ openStreams = {}
  /\ createdSessions = 0
  /\ postResponse = Undef
  /\ sseRunning = TRUE

OthersIdle == AmountIdle /\ LoggerIdle /\ SearchIdle /\ SseIdle

Init ==
  /\ InitFor(Sessions, Requests)
  /\ enableWrite \in BOOLEAN
  /\ BuilderIdle /\ CreateIdle /\ OthersIdle

InitConc ==
  /\ InitFor(ConcSessions, ConcRequests)
  /\ enableWrite \in BOOLEAN
  /\ BuilderIdle /\ CreateIdle /\ OthersIdle



\* ------------------------------------------------------------------------
\* IEEE 754 binary64 arithmetic, as far as the amount converter needs it
\* ------------------------------------------------------------------------
\* A natural number of any size is the sequence of its digits in base
\* 2^16, most significant first, without leading zeros (0 is <<>>).
\* A double is [neg, m, e]: m is a natural of 53 binary digits (or 0), the
\* value is (-1)^neg * m * 2^e.  Zero is [neg |-> FALSE, m |-> <<>>, e |-> 0]:
\* 0 and -0 are equal under ===.  Subnormals and infinities are out of
\* reach of the amounts below.
Precision == 53
DigitBits == 16
Base == 2^DigitBits

Abs(n) == IF n < 0 THEN -n ELSE n

RECURSIVE BitLength(_)
BitLength(n) == IF n = 0 THEN 0 ELSE 1 + BitLength(n \div 2)

RECURSIVE Digits(_)
Digits(n) == IF n = 0 THEN <<>> ELSE Append(Digits(n \div Base), n % Base)

RECURSIVE FromDigits(_)
FromDigits(a) ==
  IF a = <<>> THEN 0 ELSE Base * FromDigits(SubSeq(a, 1, Len(a) - 1)) + a[Len(a)]

RECURSIVE Strip(_)
Strip(a) == IF a # <<>> /\ a[1] = 0 THEN Strip(Tail(a)) ELSE a

Zeros(k) == IF k <= 0 THEN <<>> ELSE [i \in 1..k |-> 0]
AllZero(a) == \A i \in 1..Len(a) : a[i] = 0

\* number of binary digits of a
Length(a) == IF a = <<>> THEN 0 ELSE DigitBits * (Len(a) - 1) + BitLength(a[1])

\* a * k + carry for a small k
RECURSIVE MulSmall(_, _, _)
MulSmall(a, k, carry) ==
  IF a = <<>> THEN Digits(carry)
  ELSE Append(MulSmall(SubSeq(a, 1, Len(a) - 1), k, (a[Len(a)] * k + carry) \div Base),
              (a[Len(a)] * k + carry) % Base)

\* quotient and remainder of a by a small d: long division, q and r being
\* the quotient and the remainder of the digits already consumed
RECURSIVE DivSmall(_, _, _, _)
DivSmall(a, d, q, r) ==
  IF a = <<>> THEN [q |-> Strip(q), r |-> r]
  ELSE DivSmall(Tail(a), d, Append(q, (Base * r + a[1]) \div d), (Base * r + a[1]) % d)

\* a + 1
RECURSIVE Succ(_)
Succ(a) ==
  IF a = <<>> THEN <<1>>
  ELSE IF a[Len(a)] < Base - 1 THEN Append(SubSeq(a, 1, Len(a) - 1), a[Len(a)] + 1)
       ELSE Append(Succ(SubSeq(a, 1, Len(a) - 1)), 0)

\* a * 2^t
ShiftLeft(a, t) == Strip(MulSmall(a, 2^(t % DigitBits), 0)) \o Zeros(t \div DigitBits)

\* floor(a / 2^t), and whether a binary digit 1 was shifted out
ShiftRight(a, t) ==
  LET whole == t \div DigitBits
      keep == Len(a) - whole
      qr == DivSmall(SubSeq(a, 1, keep), 2^(t % DigitBits), <<>>, 0)
  IN IF keep <= 0 THEN [q |-> <<>>, lost |-> ~AllZero(a)]
     ELSE [q |-> qr.q, lost |-> qr.r # 0 \/ ~AllZero(SubSeq(a, keep + 1, Len(a)))]

IsOdd(a) == a # <<>> /\ a[Len(a)] % 2 = 1

\* the double nearest to (-1)^neg * a * 2^e / d, a tie going to the even
\* neighbour (a is a natural, d a small positive integer)
RoundToDouble(neg, a, e, d) ==
  IF a = <<>> THEN [neg |-> FALSE, m |-> <<>>, e |-> 0]
  ELSE LET up == Precision + 2 + BitLength(d)       \* enough digits after the division
           qr == DivSmall(ShiftLeft(a, up), d, <<>>, 0)
           drop == Length(qr.q) - Precision
           guard == ShiftRight(qr.q, drop - 1)      \* 53 digits and the next one
           kept == ShiftRight(guard.q, 1).q
           sticky == guard.lost \/ qr.r # 0
           roundUp == IsOdd(guard.q) /\ (sticky \/ IsOdd(kept))
           m1 == IF roundUp THEN Succ(kept) ELSE kept
       IN IF Length(m1) > Precision
          THEN [neg |-> neg, m |-> ShiftRight(m1, 1).q, e |-> e - up + drop + 1]
          ELSE [neg |-> neg, m |-> m1, e |-> e - up + drop]

\* the double a decimal literal of n thousandths denotes
ToDouble(n) == RoundToDouble(n < 0, Digits(Abs(n)), 0, 1000)

\* x * k for a small natural k
Times(x, k) == RoundToDouble(x.neg, MulSmall(x.m, k, 0), x.e, 1)

\* n / d for an integer n and a small natural d
Divide(n, d) == RoundToDouble(n < 0, Digits(Abs(n)), 0, d)

\* faulty variant: Math.trunc(x), the digits after the point dropped
MathRound_truncate(x) ==
  IF x.m = <<>> THEN 0
  ELSE IF x.e >= 0 THEN (IF x.neg THEN -1 ELSE 1) * FromDigits(ShiftLeft(x.m, x.e))
  ELSE (IF x.neg THEN -1 ELSE 1) * FromDigits(ShiftRight(x.m, -x.e).q)

\* Math.round(x): the integer nearest to x, a tie going towards +Infinity
MathRound(x) ==
  IF x.m = <<>> THEN 0
  ELSE IF x.e >= 0 THEN (IF x.neg THEN -1 ELSE 1) * FromDigits(ShiftLeft(x.m, x.e))
  ELSE LET halves == ShiftRight(x.m, -x.e - 1)      \* floor(2 * |x|)
           whole == FromDigits(ShiftRight(halves.q, 1).q)
           half == IsOdd(halves.q)                  \* the fraction is >= 1/2
       IN IF x.neg THEN -(whole + (IF half /\ halves.lost THEN 1 ELSE 0))
          ELSE whole + (IF half THEN 1 ELSE 0)

\* ------------------------------------------------------------------------
\* Amount converter (core/transactions/amount-converter.ts)
\* ------------------------------------------------------------------------
\* Math.round(amount * 100), the amount being the decimal literal of that
\* many thousandths
convertToCents(amount) == MathRound(Times(ToDouble(amount), 100))

\* cents / 100
convertFromCents(cents) == Divide(cents, 100)

\* ------------------------------------------------------------------------
\* Response helpers (utils/response.ts)
\* ------------------------------------------------------------------------
error(message) == [isError |-> TRUE, message |-> message]

errorFromCatch(err) == [isError |-> TRUE, message |-> err]

\* JSON.stringify leaves out the keys of an object whose value is undefined
JsonObject(f) == [k \in {x \in DOMAIN f : f[x] # Undef} |-> f[k]]

successWithJson(data) ==
  [isError |-> FALSE,
   body |-> IF "metadata" \in DOMAIN data THEN [data EXCEPT !.metadata = JsonObject(@)]
            ELSE data]

\* ------------------------------------------------------------------------
\* Envelope builder (utils/report-builder.ts)
\* ------------------------------------------------------------------------
Verb(operation) ==
  IF operation = "create" THEN "Created"
  ELSE IF operation = "update" THEN "Updated"
  ELSE IF operation = "delete" THEN "Deleted" ELSE ""

\* faulty variant: the ID suffix is appended whenever there is one entry
buildMutationResponse_anyId(options) ==
  LET ids == IF options.resourceIds.t = "array" THEN options.resourceIds.a
             ELSE <<options.resourceIds>>
      count == Len(ids)
      auto == Verb(options.operation) \o " " \o ToString(count) \o " "
                \o options.resourceType \o (IF count # 1 THEN "s" ELSE "")
      summary ==
        IF ~Falsy(options.summary) THEN options.summary.s
        ELSE IF count = 1
        THEN auto \o " (ID: " \o (IF ids[1].t = "string" THEN ids[1].s ELSE "undefined") \o ")"
        ELSE auto
      metadata == [k \in DOMAIN options.metadata \cup {"changes"} |->
                     IF k = "changes" THEN options.changes ELSE options.metadata[k]]
  IN successWithJson([operation |-> options.operation,
                      resourceType |-> options.resourceType,
                      summary |-> summary,
                      affected |-> [ids |-> ids, count |-> count],
                      metadata |-> metadata])

\* faulty variant: a list of IDs is passed through but counted as one resource
buildMutationResponse_countOne(options) ==
  LET ids == IF options.resourceIds.t = "array" THEN options.resourceIds.a
             ELSE <<options.resourceIds>>
      count == 1
      auto == Verb(options.operation) \o " " \o ToString(count) \o " "
                \o options.resourceType \o (IF count # 1 THEN "s" ELSE "")
      summary ==
        IF ~Falsy(options.summary) THEN options.summary.s
        ELSE IF Len(ids) = 1 /\ ~Falsy(ids[1]) THEN auto \o " (ID: " \o ids[1].s \o ")"
        ELSE auto
      metadata == [k \in DOMAIN options.metadata \cup {"changes"} |->
                     IF k = "changes" THEN options.changes ELSE options.metadata[k]]
  IN successWithJson([operation |-> options.operation,
                      resourceType |-> options.resourceType,
                      summary |-> summary,
                      affected |-> [ids |-> ids, count |-> count],
                      metadata |-> metadata])

\* options.metadata is a function from the keys the caller supplied to values
buildMutationResponse(options) ==
  LET ids == IF options.resourceIds.t = "array" THEN options.resourceIds.a
             ELSE <<options.resourceIds>>
      count == Len(ids)
      auto == Verb(options.operation) \o " " \o ToString(count) \o " "
                \o options.resourceType \o (IF count # 1 THEN "s" ELSE "")
      summary ==
        IF ~Falsy(options.summary) THEN options.summary.s
        ELSE IF count = 1 /\ ~Falsy(ids[1]) THEN auto \o " (ID: " \o ids[1].s \o ")"
        ELSE auto
      \* { ...metadata, changes }
      metadata == [k \in DOMAIN options.metadata \cup {"changes"} |->
                     IF k = "changes" THEN options.changes ELSE options.metadata[k]]
  IN successWithJson([operation |-> options.operation,
                      resourceType |-> options.resourceType,
                      summary |-> summary,
                      affected |-> [ids |-> ids, count |-> count],
                      metadata |-> metadata])

\* faulty variant: metadata?.count || (...), a given count of 0 is passed over
QueryCount_or(options) ==
  IF options.metadata # Undef /\ "count" \in DOMAIN options.metadata
       /\ ~Falsy(options.metadata["count"])
  THEN options.metadata["count"].n
  ELSE IF options.data.t = "array" THEN Len(options.data.a) ELSE 1

\* metadata?.count ?? (Array.isArray(data) ? data.length : 1); options.metadata
\* is Undef or a function from the keys the caller supplied to values
QueryCount(options) ==
  IF options.metadata # Undef /\ "count" \in DOMAIN options.metadata
       /\ options.metadata["count"] # Undef
  THEN options.metadata["count"].n
  ELSE IF options.data.t = "array" THEN Len(options.data.a) ELSE 1

buildQueryResponse(options) ==
  LET count == QueryCount(options)
      \* options.summary ?? `Retrieved ...`
      summary == IF options.summary # Undef THEN options.summary.s
                 ELSE "Retrieved " \o ToString(count) \o " " \o options.resourceType
                        \o (IF count # 1 THEN "s" ELSE "")
      response == [operation |-> "query", resourceType |-> options.resourceType,
                   summary |-> summary, data |-> options.data]
  IN successWithJson(IF options.metadata = Undef THEN response
                     ELSE response @@ [metadata |-> options.metadata])

\* ------------------------------------------------------------------------
\* update-transaction: input parser
\* ------------------------------------------------------------------------
TypeOf(v) == IF v.t = "array" THEN "object" ELSE v.t

parseSub(sub) ==
  [amount |-> IF TypeOf(sub.amount) = "number" THEN sub.amount ELSE Num(0),
   categoryId |-> IF TypeOf(sub.categoryId) = "string" THEN sub.categoryId ELSE Str(""),
   notes |-> IF TypeOf(sub.notes) = "string" THEN sub.notes ELSE Undef]

\* faulty variant: an empty list is collapsed into an omitted field
parseSubtransactions_collapse(subtransactions) ==
  IF subtransactions.t = "array" /\ Len(subtransactions.a) > 0
  THEN Arr([i \in 1..Len(subtransactions.a) |-> parseSub(subtransactions.a[i])])
  ELSE Undef

parseSubtransactions(subtransactions) ==
  IF subtransactions.t = "array"
  THEN Arr([i \in 1..Len(subtransactions.a) |-> parseSub(subtransactions.a[i])])
  ELSE Undef

\* the date and cleared fields of the parsed input
parseDate(argsObj) == IF TypeOf(argsObj.date) = "string" THEN argsObj.date ELSE Undef

parseCleared(argsObj) == IF TypeOf(argsObj.cleared) = "boolean" THEN argsObj.cleared ELSE Undef

parse(args) ==
  IF Falsy(args) \/ TypeOf(args) # "object"
  THEN [ok |-> FALSE, error |-> ERR_ARGS]
  ELSE LET argsObj == args.o IN
    IF Falsy(argsObj.transactionId) \/ TypeOf(argsObj.transactionId) # "string"
    THEN [ok |-> FALSE, error |-> ERR_TXN_ID]
    ELSE [ok |-> TRUE,
          value |-> [transactionId |-> argsObj.transactionId,
                     date |-> parseDate(argsObj),
                     categoryId |-> IF TypeOf(argsObj.categoryId) = "string" THEN argsObj.categoryId ELSE Undef,
                     payeeId |-> IF TypeOf(argsObj.payeeId) = "string" THEN argsObj.payeeId ELSE Undef,
                     notes |-> IF TypeOf(argsObj.notes) = "string" THEN argsObj.notes ELSE Undef,
                     amount |-> IF TypeOf(argsObj.amount) = "number" THEN argsObj.amount ELSE Undef,
                     cleared |-> parseCleared(argsObj),
                     subtransactions |-> parseSubtransactions(argsObj.subtransactions)]]

\* ------------------------------------------------------------------------
\* update-transaction: data fetcher with the split-transaction guard
\* ------------------------------------------------------------------------
RECURSIVE SumCents(_)
SumCents(subs) ==
  IF Len(subs) = 0 THEN 0 ELSE convertToCents(Head(subs).amount.n) + SumCents(Tail(subs))

\* faulty variant: the guard is missing
emptySubtransactions_never(input) == FALSE

\* faulty variant: the guard also rejects lists whose total differs from the amount
emptySubtransactions_orMismatch(input) ==
  /\ input.subtransactions.t = "array"
  /\ \/ Len(input.subtransactions.a) = 0
     \/ /\ input.amount # Undef
        /\ SumCents(input.subtransactions.a) # convertToCents(input.amount.n)

\* Array.isArray(input.subtransactions) && input.subtransactions.length === 0
emptySubtransactions(input) ==
  input.subtransactions.t = "array" /\ Len(input.subtransactions.a) = 0

mapSub(sub) ==
  [amount |-> Num(convertToCents(sub.amount.n)),
   category |-> sub.categoryId,
   notes |-> OrElse(sub.notes, Str(""))]

Field(key, present, value) == IF present THEN key :> value ELSE <<>>

\* faulty variant: notes defaulted to '' as in create-transaction
buildUpdateData_defaultNotes(input) ==
  Field("date", input.date # Undef, input.date)
  @@ Field("category", input.categoryId # Undef, input.categoryId)
  @@ Field("payee", input.payeeId # Undef, input.payeeId)
  @@ Field("notes", TRUE, OrElse(input.notes, Str("")))
  @@ Field("amount", input.amount # Undef,
           IF input.amount # Undef THEN Num(convertToCents(input.amount.n)) ELSE Undef)
  @@ Field("cleared", input.cleared # Undef, input.cleared)
  @@ Field("subtransactions", input.subtransactions # Undef,
           IF input.subtransactions # Undef
           THEN Arr([i \in 1..Len(input.subtransactions.a) |-> mapSub(input.subtransactions.a[i])])
           ELSE Undef)

\* the update object: only the provided fields
buildUpdateData(input) ==
  Field("date", input.date # Undef, input.date)
  @@ Field("category", input.categoryId # Undef, input.categoryId)
  @@ Field("payee", input.payeeId # Undef, input.payeeId)
  @@ Field("notes", input.notes # Undef, input.notes)
  @@ Field("amount", input.amount # Undef,
           IF input.amount # Undef THEN Num(convertToCents(input.amount.n)) ELSE Undef)
  @@ Field("cleared", input.cleared # Undef, input.cleared)
  @@ Field("subtransactions", input.subtransactions # Undef,
           IF input.subtransactions # Undef
           THEN Arr([i \in 1..Len(input.subtransactions.a) |-> mapSub(input.subtransactions.a[i])])
           ELSE Undef)

\* what UpdateTransactionDataFetcher.updateTransaction does once the
\* connection is up: throw, or call api.updateTransaction(id, data)
updateTransactionOutcome(input) ==
  IF input.subtransactions # Undef /\ emptySubtransactions(input)
  THEN [throws |-> TRUE, error |-> ERR_EMPTY_SUBS]
  ELSE IF Cardinality(DOMAIN buildUpdateData(input)) = 0
  THEN [throws |-> TRUE, error |-> ERR_NO_FIELDS]
  ELSE [throws |-> FALSE, id |-> input.transactionId, data |-> buildUpdateData(input)]

\* faulty variant: the engine call is issued before the guard has validated
updateTransactionTrace_callFirst(input) ==
  <<"api.updateTransaction">> \o (IF input.subtransactions # Undef THEN <<"guard">> ELSE <<>>)

\* the order in which the guard's validation and the engine call are made
updateTransactionTrace(input) ==
  (IF input.subtransactions # Undef THEN <<"guard">> ELSE <<>>)
  \o (IF updateTransactionOutcome(input).throws THEN <<>> ELSE <<"api.updateTransaction">>)

\* ------------------------------------------------------------------------
\* update-transaction: handler
\* ------------------------------------------------------------------------
\* the warning texts, without their leading warning sign
WARN_SUBS == "Updating subtransactions array has known limitations. Verify changes in the Actual Budget UI. If changes do not persist, delete the split transaction and create a new one."
WARN_SPLIT_PARENT == "If this is a split transaction parent, updates to date/amount/notes may not persist in the UI. To reliably update splits: update individual subtransactions by their IDs, or delete and recreate the split."

Pushed(present, name) == IF present THEN <<name>> ELSE <<>>

updatedFieldsOf(input) ==
  Pushed(input.date # Undef, "date")
  \o Pushed(input.categoryId # Undef, "category")
  \o Pushed(input.payeeId # Undef, "payee")
  \o Pushed(input.notes # Undef, "notes")
  \o Pushed(input.amount # Undef, "amount")
  \o Pushed(input.cleared # Undef, "cleared")
  \o Pushed(input.subtransactions # Undef, "subtransactions")

\* faulty variant: the split-parent warning does not look at subtransactions
warningsOf_both(input) ==
  LET updatingSplitParentField ==
        input.date # Undef \/ input.amount # Undef \/ input.notes # Undef
  IN Pushed(input.subtransactions # Undef, WARN_SUBS)
     \o Pushed(updatingSplitParentField, WARN_SPLIT_PARENT)

warningsOf(input) ==
  LET updatingSplitParentField ==
        input.date # Undef \/ input.amount # Undef \/ input.notes # Undef
  IN Pushed(input.subtransactions # Undef, WARN_SUBS)
     \o Pushed(updatingSplitParentField /\ Falsy(input.subtransactions), WARN_SPLIT_PARENT)

\* the envelope the handler returns after a successful update
handlerResponse(input) ==
  buildMutationResponse(
    [operation |-> "update",
     resourceType |-> "transaction",
     resourceIds |-> input.transactionId,
     summary |-> Undef,
     changes |-> Undef,
     metadata |->
       ("warnings" :> (IF Len(warningsOf(input)) > 0 THEN Arr(warningsOf(input)) ELSE Undef))
       @@ ("changes" :> Obj([updatedFields |-> updatedFieldsOf(input)]))])


\* ------------------------------------------------------------------------
\* Tool catalog (tools/index.ts)
\* ------------------------------------------------------------------------
\* faulty variant: the catalog ignores the write flag
allTools_always == readTools \cup writeTools

\* enableWrite ? [...readTools, ...writeTools] : readTools
allTools == IF enableWrite THEN readTools \cup writeTools ELSE readTools

\* the ListTools request handler: the schemas of allTools, here their names
listTools == [tools |-> allTools]

\* ------------------------------------------------------------------------
\* get-budget-month (tools/budget/get-budget-month/index.ts)
\* ------------------------------------------------------------------------
\* `${year}-${String(month).padStart(2, '0')}`
monthString(year, month) ==
  ToString(year) \o "-" \o (IF month < 10 THEN "0" ELSE "") \o ToString(month)

\* what the engine holds for a month, amounts in cents
rawBudgetMonth(m) ==
  [month |-> Str(m), incomeAvailable |-> -6895944, lastMonthOverspent |-> 0,
   forNextMonth |-> 0, totalBudgeted |-> -3623267, toBudget |-> -10519211,
   fromLastMonth |-> -6895944, totalIncome |-> 0, totalSpent |-> 0,
   totalBalance |-> 13578547,
   categoryGroups |->
     << [id |-> Str("group1"), name |-> Str("Test Group"),
         budgeted |-> 100000, spent |-> 50000, balance |-> 50000,
         categories |-> << [id |-> Str("cat1"), name |-> Str("Test Category"),
                            received |-> 0, budgeted |-> 100000,
                            spent |-> 50000, balance |-> 50000] >>] >>]

\* cents / 100, the quotient carried in thousandths
Div100(cents) == Num(cents * 10)

\* the handler's conversion and its return value
budgetMonthResponse(raw) ==
  successWithJson(
    [month |-> raw.month,
     incomeAvailable |-> Div100(raw.incomeAvailable),
     lastMonthOverspent |-> Div100(raw.lastMonthOverspent),
     forNextMonth |-> Div100(raw.forNextMonth),
     totalBudgeted |-> Div100(raw.totalBudgeted),
     toBudget |-> Div100(raw.toBudget),
     fromLastMonth |-> Div100(raw.fromLastMonth),
     totalIncome |-> Div100(raw.totalIncome),
     totalSpent |-> Div100(raw.totalSpent),
     totalBalance |-> Div100(raw.totalBalance),
     categoryGroups |->
       [i \in DOMAIN raw.categoryGroups |->
          LET group == raw.categoryGroups[i] IN
          [id |-> group.id, name |-> group.name,
           budgeted |-> Div100(group.budgeted), spent |-> Div100(group.spent),
           balance |-> Div100(group.balance),
           categories |->
             [j \in DOMAIN group.categories |->
                LET cat == group.categories[j] IN
                [id |-> cat.id, name |-> cat.name,
                 received |-> Div100(cat.received), budgeted |-> Div100(cat.budgeted),
                 spent |-> Div100(cat.spent), balance |-> Div100(cat.balance)]]]]])

\* ------------------------------------------------------------------------
\* Continuations shared by the actions
\* ------------------------------------------------------------------------
Logged(s, es) == events' = [events EXCEPT ![s] = @ \o es]

\* the tool handler (or the request handler's own catch) has produced the
\* result; the request handler's finally block may run
Finish(s, res, es) ==
  /\ result' = [result EXCEPT ![s] = res]
  /\ pc' = [pc EXCEPT ![s] = "returned"]
  /\ tpc' = [tpc EXCEPT ![s] = IF @ = "none" THEN "finally" ELSE @]
  /\ Logged(s, es \o <<"result">>)

\* initActualApi returns to the code that awaits it
InitReturns(s) ==
  /\ pc' = [pc EXCEPT ![s] = IF caller[s] = "dispatch" THEN "dispatch"
                             ELSE IF request[s].name = GET_BUDGET_MONTH
                             THEN "api_getBudgetMonth" ELSE "fetch_build"]
  /\ UNCHANGED <<result, tpc, events>>

\* initActualApi throws: both awaiting places sit in a try block whose
\* catch returns errorFromCatch(err)
InitThrows(s, err) == Finish(s, errorFromCatch(err), <<>>)

\* the catch block of initActualApi up to its await of api.shutdown()
InitCatch(s, err) ==
  /\ initializationError' = err
  /\ initialized' = FALSE
  /\ currentBudgetId' = NoBudget
  /\ pc' = [pc EXCEPT ![s] = "api_cleanup"]
  /\ Logged(s, <<"init failed", "api.shutdown">>)
  /\ UNCHANGED <<result, tpc>>

\* ------------------------------------------------------------------------
\* The tool-call request handler (tools/index.ts) and actual-api.ts
\* ------------------------------------------------------------------------
\* faulty variant: `return tool.handler(args)` without await
AwaitsHandler_not == FALSE

\* `const result = await tool.handler(args)`
AwaitsHandler == TRUE

\* a tool-call request arrives: try { await initActualApi(); ...
Receive(s) ==
  /\ pc[s] = "idle"
  /\ pc' = [pc EXCEPT ![s] = "init"]
  /\ caller' = [caller EXCEPT ![s] = "dispatch"]
  /\ UNCHANGED <<tpc, request, awaitedFailure, parsedInput, result, escaped, events, updateCalls,
                 moduleVars, engineVars>>

\* initActualApi up to its first await, and its wait loop
InitActualApi(s) ==
  /\ pc[s] \in {"init", "init_wait"}
  /\ UNCHANGED <<caller, request, awaitedFailure, parsedInput, escaped, updateCalls, initialized,
                 initializationError, currentBudgetId, apiInitialized, engineInit,
                 engineBudget>>
  /\ engineInitCalls' = IF pc[s] = "init" /\ ~initialized /\ ~initializing /\ ~apiInitialized
                        THEN engineInitCalls + 1 ELSE engineInitCalls
  /\ IF pc[s] = "init" /\ ~initialized /\ ~initializing
     THEN /\ initializing' = TRUE
          /\ pc' = [pc EXCEPT ![s] = IF apiInitialized THEN "api_getBudgets" ELSE "api_init"]
          /\ Logged(s, IF apiInitialized THEN <<"api.getBudgets">> ELSE <<"api.init">>)
          /\ UNCHANGED <<result, tpc>>
     ELSE /\ UNCHANGED initializing
          /\ IF pc[s] = "init" /\ initialized THEN InitReturns(s)
             ELSE IF initializing
             THEN /\ pc' = [pc EXCEPT ![s] = "init_wait"]
                  /\ UNCHANGED <<result, tpc, events>>
             ELSE IF initializationError # NoError
             THEN InitThrows(s, initializationError)
             ELSE InitReturns(s)

\* api.init() settles
ApiInitReturn(s) ==
  /\ pc[s] = "api_init"
  /\ UNCHANGED <<caller, request, awaitedFailure, parsedInput, escaped, updateCalls, initializing>>
  /\ \E ok \in BOOLEAN :
       IF ok
       THEN /\ apiInitialized' = TRUE
            /\ engineInit' = TRUE
            /\ pc' = [pc EXCEPT ![s] = "api_getBudgets"]
            /\ Logged(s, <<"api.getBudgets">>)
            /\ UNCHANGED <<result, tpc, initialized, initializationError,
                           currentBudgetId, engineBudget, engineInitCalls>>
       ELSE /\ InitCatch(s, ERR_ENGINE)
            /\ UNCHANGED <<apiInitialized, engineVars>>

\* api.getBudgets() settles
ApiGetBudgetsReturn(s) ==
  /\ pc[s] = "api_getBudgets"
  /\ UNCHANGED <<caller, request, awaitedFailure, parsedInput, escaped, updateCalls, apiInitialized,
                 engineVars>>
  /\ \E outcome \in {"throws", "empty", "budgets"} :
       IF outcome = "budgets"
       THEN IF currentBudgetId # BudgetId
            THEN /\ pc' = [pc EXCEPT ![s] = "api_download"]
                 /\ Logged(s, <<"api.downloadBudget">>)
                 /\ UNCHANGED <<result, tpc, initialized, initializing,
                                initializationError, currentBudgetId>>
            ELSE /\ initialized' = TRUE
                 /\ initializing' = FALSE
                 /\ InitReturns(s)
                 /\ UNCHANGED <<initializationError, currentBudgetId>>
       ELSE /\ InitCatch(s, IF outcome = "empty" THEN ERR_NO_BUDGETS ELSE ERR_ENGINE)
            /\ UNCHANGED initializing

\* api.downloadBudget() settles
ApiDownloadReturn(s) ==
  /\ pc[s] = "api_download"
  /\ UNCHANGED <<caller, request, awaitedFailure, parsedInput, escaped, updateCalls, apiInitialized,
                 engineInit, engineInitCalls>>
  /\ \E ok \in BOOLEAN :
       IF ok
       THEN /\ engineBudget' = BudgetId
            /\ currentBudgetId' = BudgetId
            /\ initialized' = TRUE
            /\ initializing' = FALSE
            /\ InitReturns(s)
            /\ UNCHANGED initializationError
       ELSE /\ InitCatch(s, ERR_ENGINE)
            /\ UNCHANGED <<initializing, engineBudget>>

\* faulty variant: after the cleanup pass the initialization is tried again
ApiCleanupReturn_retry(s) ==
  /\ pc[s] = "api_cleanup"
  /\ UNCHANGED <<caller, request, parsedInput, escaped, updateCalls, initialized,
                 initializationError, currentBudgetId>>
  /\ \E ok \in BOOLEAN :
       IF ok
       THEN /\ apiInitialized' = FALSE
            /\ engineInit' = FALSE
            /\ engineBudget' = NoBudget
            /\ engineInitCalls' = 0
       ELSE UNCHANGED <<apiInitialized, engineVars>>
  /\ initializing' = FALSE
  /\ awaitedFailure' = [t \in Live |-> awaitedFailure[t] \/ pc[t] = "init_wait"]
  /\ pc' = [pc EXCEPT ![s] = "init"]
  /\ UNCHANGED <<result, tpc, events>>

\* faulty variant: `apiInitialized = false` also when the cleanup's
\* api.shutdown() has thrown
ApiCleanupReturn_alwaysReset(s) ==
  /\ pc[s] = "api_cleanup"
  /\ UNCHANGED <<caller, request, parsedInput, escaped, updateCalls, initialized,
                 initializationError, currentBudgetId>>
  /\ \E ok \in BOOLEAN :
       IF ok
       THEN /\ engineInit' = FALSE
            /\ engineBudget' = NoBudget
            /\ engineInitCalls' = 0
       ELSE UNCHANGED engineVars
  /\ apiInitialized' = FALSE
  /\ initializing' = FALSE
  /\ awaitedFailure' = [t \in Live |-> awaitedFailure[t] \/ pc[t] = "init_wait"]
  /\ InitThrows(s, initializationError)

\* the api.shutdown() of initActualApi's catch block settles; the error is
\* rethrown and the finally block clears `initializing`
ApiCleanupReturn(s) ==
  /\ pc[s] = "api_cleanup"
  /\ UNCHANGED <<caller, request, parsedInput, escaped, updateCalls, initialized,
                 initializationError, currentBudgetId>>
  /\ \E ok \in BOOLEAN :
       IF ok
       THEN /\ apiInitialized' = FALSE
            /\ engineInit' = FALSE
            /\ engineBudget' = NoBudget
            /\ engineInitCalls' = 0
       ELSE UNCHANGED <<apiInitialized, engineVars>>
  /\ initializing' = FALSE
  /\ awaitedFailure' = [t \in Live |-> awaitedFailure[t] \/ pc[t] = "init_wait"]
  /\ InitThrows(s, initializationError)

\* after initActualApi: tool lookup, then the tool handler up to its first
\* await (argument parsing, then the data fetcher's `await initActualApi()`)
Dispatch(s) ==
  /\ pc[s] = "dispatch"
  /\ UNCHANGED <<request, escaped, updateCalls, moduleVars, engineVars>>
  /\ awaitedFailure' = [awaitedFailure EXCEPT ![s] = FALSE]
  /\ IF request[s].name \notin allTools
     THEN /\ Finish(s, error(ERR_UNKNOWN_TOOL(request[s].name)), <<>>)
          /\ UNCHANGED <<caller, parsedInput>>
     ELSE IF request[s].name = GET_BUDGET_MONTH
     THEN LET args == request[s].arguments.o IN
          IF TypeOf(args.year) # "number" \/ TypeOf(args.month) # "number"
          THEN /\ Finish(s, errorFromCatch(ERR_YEAR_MONTH), <<"handler">>)
               /\ UNCHANGED <<caller, parsedInput>>
          ELSE /\ parsedInput' = [parsedInput EXCEPT
                                    ![s] = Str(monthString(args.year.n, args.month.n))]
               /\ caller' = [caller EXCEPT ![s] = "fetcher"]
               /\ pc' = [pc EXCEPT ![s] = "init"]
               /\ tpc' = [tpc EXCEPT ![s] = IF AwaitsHandler THEN @ ELSE "finally"]
               /\ Logged(s, <<"handler">>)
               /\ UNCHANGED result
     ELSE LET parsed == parse(request[s].arguments) IN
          IF ~parsed.ok
          THEN /\ Finish(s, errorFromCatch(parsed.error), <<"handler">>)
               /\ UNCHANGED <<caller, parsedInput>>
          ELSE /\ parsedInput' = [parsedInput EXCEPT ![s] = parsed.value]
               /\ caller' = [caller EXCEPT ![s] = "fetcher"]
               /\ pc' = [pc EXCEPT ![s] = "init"]
               /\ tpc' = [tpc EXCEPT ![s] = IF AwaitsHandler THEN @ ELSE "finally"]
               /\ Logged(s, <<"handler">>)
               /\ UNCHANGED result

\* the data fetcher after its initActualApi: update object, guard,
\* api.updateTransaction(id, data)
FetchBuild(s) ==
  /\ pc[s] = "fetch_build"
  /\ UNCHANGED <<caller, request, awaitedFailure, parsedInput, escaped, moduleVars, engineVars>>
  /\ LET outcome == updateTransactionOutcome(parsedInput[s])
         trace == updateTransactionTrace(parsedInput[s])
     IN IF outcome.throws
        THEN /\ Finish(s, errorFromCatch(outcome.error), trace)
             /\ UNCHANGED updateCalls
        ELSE /\ updateCalls' = [updateCalls EXCEPT
                                  ![s] = Append(@, [id |-> outcome.id, data |-> outcome.data])]
             /\ pc' = [pc EXCEPT ![s] = "api_update"]
             /\ Logged(s, trace)
             /\ UNCHANGED <<result, tpc>>

\* api.updateTransaction() settles; the handler builds its response
ApiUpdateReturn(s) ==
  /\ pc[s] = "api_update"
  /\ UNCHANGED <<caller, request, awaitedFailure, parsedInput, escaped, updateCalls, moduleVars, engineVars>>
  /\ \E ok \in BOOLEAN :
       /\ ok => engineBudget # NoBudget
       /\ Finish(s, IF ok THEN handlerResponse(parsedInput[s]) ELSE errorFromCatch(ERR_ENGINE),
                 <<IF ok THEN "updated" ELSE "update failed">>)

\* get-budget-month: api.getBudgetMonth(monthString) settles; the handler
\* converts the amounts and returns
ApiGetBudgetMonthReturn(s) ==
  /\ pc[s] = "api_getBudgetMonth"
  /\ UNCHANGED <<caller, request, awaitedFailure, parsedInput, escaped, updateCalls, moduleVars, engineVars>>
  /\ \E ok \in BOOLEAN :
       /\ ok => engineBudget # NoBudget
       /\ Finish(s, IF ok THEN budgetMonthResponse(rawBudgetMonth(parsedInput[s].s))
                       ELSE errorFromCatch(ERR_ENGINE),
                 <<"api.getBudgetMonth">>)

\* finally { await shutdownActualApi() }, up to its await of api.shutdown()
Teardown(s) ==
  /\ tpc[s] = "finally"
  /\ tpc' = [tpc EXCEPT ![s] = IF initialized THEN "api_shutdown" ELSE "closed"]
  /\ Logged(s, IF initialized THEN <<"teardown", "api.shutdown">> ELSE <<"teardown">>)
  /\ UNCHANGED <<pc, caller, request, awaitedFailure, parsedInput, result, escaped, updateCalls,
                 moduleVars, engineVars>>

\* the api.shutdown() of shutdownActualApi settles
ApiShutdownReturn(s) ==
  /\ tpc[s] = "api_shutdown"
  /\ UNCHANGED <<pc, caller, request, awaitedFailure, parsedInput, result, events, updateCalls, initializing>>
  /\ \E ok \in BOOLEAN :
       IF ok
       THEN /\ engineInit' = FALSE
            /\ engineBudget' = NoBudget
            /\ engineInitCalls' = 0
            /\ initialized' = FALSE
            /\ initializationError' = NoError
            /\ currentBudgetId' = NoBudget
            /\ apiInitialized' = FALSE
            /\ tpc' = [tpc EXCEPT ![s] = "closed"]
            /\ UNCHANGED escaped
       ELSE /\ escaped' = [escaped EXCEPT ![s] = ERR_ENGINE]
            /\ tpc' = [tpc EXCEPT ![s] = "threw"]
            /\ UNCHANGED <<initialized, initializationError, currentBudgetId,
                           apiInitialized, engineVars>>

Next ==
  \/ \E s \in Live : Receive(s) /\ UNCHANGED restVars
  \/ \E s \in Live : InitActualApi(s) /\ UNCHANGED restVars
  \/ \E s \in Live : ApiInitReturn(s) /\ UNCHANGED restVars
  \/ \E s \in Live : ApiGetBudgetsReturn(s) /\ UNCHANGED restVars
  \/ \E s \in Live : ApiDownloadReturn(s) /\ UNCHANGED restVars
  \/ \E s \in Live : ApiCleanupReturn(s) /\ UNCHANGED restVars
  \/ \E s \in Live : Dispatch(s) /\ UNCHANGED restVars
  \/ \E s \in Live : FetchBuild(s) /\ UNCHANGED restVars
  \/ \E s \in Live : ApiUpdateReturn(s) /\ UNCHANGED restVars
  \/ \E s \in Live : ApiGetBudgetMonthReturn(s) /\ UNCHANGED restVars
  \/ \E s \in Live : Teardown(s) /\ UNCHANGED restVars
  \/ \E s \in Live : ApiShutdownReturn(s) /\ UNCHANGED restVars

Spec == Init /\ [][Next]_vars

SpecConc == InitConc /\ [][Next]_vars


\* ------------------------------------------------------------------------
\* Vocabulary of the properties
\* ------------------------------------------------------------------------
IsUpdate(s) == request[s].name = UPDATE_TOOL /\ request[s].arguments.t = "object"

Raw(s) == request[s].arguments.o

\* a field is present in the request when it is set to a value of its type
Present(s, field) ==
  TypeOf(Raw(s)[field]) =
    (IF field = "amount" THEN "number" ELSE IF field = "cleared" THEN "boolean" ELSE "string")

RawSubs(s) == Raw(s).subtransactions

EngineCalls == {"api.init", "api.getBudgets", "api.downloadBudget",
                "api.updateTransaction", "api.getBudgetMonth", "api.shutdown"}

Occurs(s, e) == \E i \in DOMAIN events[s] : events[s][i] = e

Succeeded(s) == result[s] # Undef /\ ~result[s].isError

WarningsIn(res) ==
  IF "warnings" \in DOMAIN res.body.metadata THEN res.body.metadata["warnings"].a ELSE <<>>

\* C1: an update request whose subtransactions field is a present empty list
\* always fails (with the guard's error once the guard is reached) and
\* api.updateTransaction is never called for it, whatever else is set.
C1_EmptySubtransactionsRejected ==
  \A s \in Live :
    (IsUpdate(s) /\ RawSubs(s) = Arr(<<>>)) =>
      /\ updateCalls[s] = <<>>
      /\ ~Occurs(s, "api.updateTransaction")
      /\ result[s] # Undef => result[s].isError
      /\ Occurs(s, "guard") => result[s] = errorFromCatch(ERR_EMPTY_SUBS)

C1_Witness ==
  \E s \in Live :
    /\ IsUpdate(s) /\ RawSubs(s) = Arr(<<>>)
    /\ Present(s, "date") /\ Present(s, "categoryId") /\ Present(s, "cleared")
    /\ result[s] = errorFromCatch(ERR_EMPTY_SUBS)

\* C2 as stated: within one invocation the guard's validation precedes every
\* engine call made for it, the connection lifecycle calls included.
C2_GuardBeforeEveryEngineCall ==
  \A s \in Live : \A i, j \in DOMAIN events[s] :
    (events[s][i] = "guard" /\ events[s][j] \in EngineCalls) => i < j

\* C2 amended: within one invocation the guard's validation precedes the
\* engine's update call; the lifecycle calls of initActualApi come before it.
C2_GuardBeforeUpdateCall ==
  \A s \in Live : \A i, j \in DOMAIN events[s] :
    /\ (events[s][i] = "guard" /\ events[s][j] = "api.updateTransaction") => i < j
    /\ (events[s][i] = "guard"
          /\ events[s][j] \in {"api.init", "api.getBudgets", "api.downloadBudget"}) => j < i

C2_Witness ==
  \E s \in Live :
    /\ Occurs(s, "guard") /\ Occurs(s, "api.updateTransaction")
    /\ Occurs(s, "api.downloadBudget")

\* C3: the teardown of an invocation begins only after its handler has
\* produced its result or its error.
C3_TeardownAfterResult ==
  \A s \in Live : \A i \in DOMAIN events[s] :
    events[s][i] = "teardown" => \E j \in 1..(i - 1) : events[s][j] = "result"

C3_Witness ==
  \E s \in Live :
    /\ Occurs(s, "handler") /\ Occurs(s, "updated")
    /\ Occurs(s, "teardown") /\ tpc[s] = "api_shutdown"

\* C4: the teardown at the end of one invocation never shuts the engine
\* connection down while another invocation has an engine call in flight.
C4_TeardownLeavesOthersAlone ==
  [][\A a, b \in Live :
       (a # b /\ tpc[a] = "api_shutdown" /\ tpc'[a] = "closed")
         => pc[b] \notin {"api_getBudgets", "api_download", "api_update"}]_vars

\* C5: whatever step throws, the caller receives an error envelope and no
\* exception escapes the tool-call request handler.
C5_NoExceptionEscapes ==
  \A s \in Live : escaped[s] = NoError

C7_TriStatePreserved ==
  \A s \in Live :
    (IsUpdate(s) /\ parsedInput[s] # Undef) =>
      LET raw == RawSubs(s)
          parsed == parsedInput[s].subtransactions
      IN /\ raw = Undef =>
              /\ parsed = Undef
              /\ \A k \in DOMAIN updateCalls[s] :
                   "subtransactions" \notin DOMAIN updateCalls[s][k].data
         /\ raw = Arr(<<>>) => parsed = Arr(<<>>) /\ updateCalls[s] = <<>>
         /\ (raw.t = "array" /\ raw # Arr(<<>>)) =>
              /\ parsed.t = "array" /\ Len(parsed.a) = Len(raw.a)
              /\ \A i \in DOMAIN raw.a :
                   /\ parsed.a[i].amount = raw.a[i].amount
                   /\ parsed.a[i].categoryId = raw.a[i].categoryId
              /\ \A k \in DOMAIN updateCalls[s] :
                   LET sent == updateCalls[s][k].data["subtransactions"]
                   IN /\ sent.t = "array" /\ Len(sent.a) = Len(raw.a)
                      /\ \A i \in DOMAIN raw.a :
                           /\ sent.a[i].category = raw.a[i].categoryId
                           /\ sent.a[i].amount.n * 10 = raw.a[i].amount.n

C7_Witness ==
  \E s \in Live :
    /\ IsUpdate(s) /\ RawSubs(s).t = "array" /\ Len(RawSubs(s).a) = 2
    /\ RawSubs(s).a[1].categoryId = Str("cat-2") /\ RawSubs(s).a[2].categoryId = Str("cat-1")
    /\ Len(updateCalls[s]) = 1
    /\ updateCalls[s][1].data["subtransactions"].a[1].category = Str("cat-2")

UnknownTool(s) == error(ERR_UNKNOWN_TOOL(request[s].name))

\* the initialization awaited by the request handler or by a tool failed
InitFailed(s) == Occurs(s, "init failed")

\* C14: with the write flag off the listing holds only the read-only tools
\* and a call of a mutating tool returns the unknown-tool error without its
\* handler being run; with the flag on the read-only and the mutating tools
\* are all listed, and every listed tool that is called has its handler run.
C14_WriteFlagPartitionsCatalog ==
  /\ ~enableWrite => listTools.tools = readTools /\ listTools.tools \cap writeTools = {}
  /\ enableWrite => listTools.tools = readTools \cup writeTools
  /\ \A s \in Live :
       /\ (~enableWrite /\ request[s].name \in writeTools) =>
            /\ ~Occurs(s, "handler")
            /\ updateCalls[s] = <<>>
            /\ result[s] # Undef => (result[s] = UnknownTool(s) \/ InitFailed(s))
       /\ (request[s].name \in listTools.tools /\ result[s] # Undef) =>
            /\ result[s] # UnknownTool(s)
            /\ Occurs(s, "handler") \/ InitFailed(s)

C14_Witness ==
  \E s \in Live :
    /\ ~enableWrite /\ request[s].name = UPDATE_TOOL /\ request[s].arguments = ClearedOnlyArgs
    /\ result[s] = UnknownTool(s)
    /\ tpc[s] = "closed"

\* C15: when an initialization fails there is one cleanup pass: one engine
\* shutdown attempt, made with the initialized flag and the loaded-budget id
\* reset; the error is what the caller gets, and neither the initialization
\* nor the request is tried again (nothing but the result and the teardown
\* follows).
C15_OneCleanupPassNoRetry ==
  \A s \in Live :
    /\ pc[s] = "api_cleanup" =>
         ~initialized /\ currentBudgetId = NoBudget /\ initializationError # NoError
    /\ \A i \in DOMAIN events[s] :
         events[s][i] = "init failed" =>
           /\ i < Len(events[s])
           /\ events[s][i + 1] = "api.shutdown"
           /\ \A j \in DOMAIN events[s] :
                /\ j # i => events[s][j] # "init failed"
                /\ j > i + 1 => events[s][j] \in {"result", "teardown"}
           /\ result[s] # Undef =>
                result[s] = errorFromCatch(initializationError)

C15_Witness ==
  \E s \in Live :
    /\ InitFailed(s)
    /\ Occurs(s, "api.getBudgets")
    /\ result[s] = errorFromCatch(ERR_NO_BUDGETS)
    /\ tpc[s] = "closed"

Operations == {"query", "create", "update", "delete", "report", "analyze"}

\* one of the three standardized envelope shapes
IsEnvelope(body) ==
  /\ {"operation", "resourceType", "summary"} \subseteq DOMAIN body
  /\ body.operation \in Operations

\* C16: every result of a registered tool that is not an error is one of the
\* three standardized envelopes: it carries an operation tag, a resourceType
\* and a summary.
C16_EveryResultIsEnvelope ==
  \A s \in Live : Succeeded(s) => IsEnvelope(result[s].body)

\* ------------------------------------------------------------------------
\* The envelope builders applied to the options a caller can pass
\* ------------------------------------------------------------------------
ChangeDetails ==
  { Obj([updatedFields |-> <<"category", "amount">>]),
    Obj([newValues |-> [amount |-> "$25.50"]]) }

MetadataMaps ==
  LET warnings == Arr(<<"This is a split transaction">>) IN
  { <<>>, ("warnings" :> warnings) }
    \cup { ("changes" :> c) : c \in ChangeDetails }
    \cup { ("warnings" :> warnings) @@ ("changes" :> c) : c \in ChangeDetails }

ResourceIds ==
  { Undef, Str(""), Str("txn-1"), Arr(<<>>), Arr(<<Str("txn-1")>>), Arr(<<Str("")>>),
    Arr(<<Str("txn-1"), Str("txn-2")>>) }

MutationOptions ==
  [ kind : {"mutation"},
    operation : {"create", "update", "delete"},
    resourceType : {"transaction", "category"},
    resourceIds : ResourceIds,
    summary : {Undef, Str("Custom summary")},
    changes : {Undef} \cup ChangeDetails,
    metadata : MetadataMaps ]

QueryData ==
  LET one == Obj([id |-> "1", name |-> "Single Item"])
      two == Obj([id |-> "2", name |-> "Other Item"])
  IN { Arr(<<>>), Arr(<<one>>), Arr(<<one, two>>), one }

QueryOptions ==
  [ kind : {"query"},
    resourceType : {"transaction", "budget"},
    data : QueryData,
    summary : {Undef, Str("Custom summary")},
    metadata : {Undef, ("count" :> Num(0)), ("count" :> Num(1)), ("count" :> Num(5)),
                ("period" :> Str("2025-01"))} ]

InitBuilder ==
  /\ InitFor({}, {})
  /\ enableWrite = TRUE
  /\ CreateIdle /\ OthersIdle
  /\ builderOptions \in MutationOptions \cup QueryOptions
  /\ builderResponse = Undef

BuildMutation ==
  /\ builderResponse = Undef
  /\ builderOptions.kind = "mutation"
  /\ builderResponse' = buildMutationResponse(builderOptions)
  /\ UNCHANGED <<otherVars, serverVars, enableWrite, builderOptions, createVars>>

BuildQuery ==
  /\ builderResponse = Undef
  /\ builderOptions.kind = "query"
  /\ builderResponse' = buildQueryResponse(builderOptions)
  /\ UNCHANGED <<otherVars, serverVars, enableWrite, builderOptions, createVars>>

NextBuilder ==
  \/ BuildMutation
  \/ BuildQuery

SpecBuilder == InitBuilder /\ [][NextBuilder]_vars

\* a builder has been applied to the options
BuiltMutation == builderResponse # Undef /\ builderOptions.kind = "mutation"
BuiltQuery == builderResponse # Undef /\ builderOptions.kind = "query"

\* the change details a caller supplies: the `changes` option, or else the
\* `changes` entry of the metadata it passes
SuppliedChanges(o) ==
  IF o.changes # Undef THEN o.changes
  ELSE IF "changes" \in DOMAIN o.metadata THEN o.metadata["changes"] ELSE Undef

\* C12: buildMutationResponse keeps every other metadata field the caller
\* supplied, and the change details the caller supplied are found under
\* metadata.changes of the result.
C12_ChangesMergedIntoMetadata ==
  BuiltMutation =>
    LET o == builderOptions
        md == builderResponse.body.metadata
    IN /\ \A k \in DOMAIN o.metadata \ {"changes"} : k \in DOMAIN md /\ md[k] = o.metadata[k]
       /\ SuppliedChanges(o) # Undef =>
            "changes" \in DOMAIN md /\ md["changes"] = SuppliedChanges(o)

\* C17: a single ID and the one-element list of that ID give the same result
\* (affected block with ids = [id] and count = 1, and the same summary), and
\* for every input affected.count is the number of elements of affected.ids.
C17_ResourceIdsNormalized ==
  BuiltMutation =>
    LET o == builderOptions
        affected == builderResponse.body.affected
    IN /\ affected.count = Len(affected.ids)
       /\ o.resourceIds.t = "array" => affected.ids = o.resourceIds.a
       /\ o.resourceIds.t # "array" =>
            /\ affected = [ids |-> <<o.resourceIds>>, count |-> 1]
            /\ buildMutationResponse([o EXCEPT !.resourceIds = Arr(<<o.resourceIds>>)])
                 = builderResponse

C17_Witness ==
  /\ BuiltMutation
  /\ builderOptions.resourceIds = Str("txn-1")
  /\ builderOptions.summary = Undef
  /\ builderResponse.body.affected = [ids |-> <<Str("txn-1")>>, count |-> 1]

C17_WitnessEmpty ==
  /\ BuiltMutation
  /\ builderOptions.resourceIds = Arr(<<>>)
  /\ builderResponse.body.affected.count = 0

VerbOf(operation) ==
  CASE operation = "create" -> "Created"
    [] operation = "update" -> "Updated"
    [] operation = "delete" -> "Deleted"

IdText(id) == IF id.t = "string" THEN id.s ELSE "undefined"

Plural(n) == IF n # 1 THEN "s" ELSE ""

\* the summary the builder is said to derive, the suffix being appended
\* when `withId` holds
DerivedSummary(o, ids, withId) ==
  VerbOf(o.operation) \o " " \o ToString(Len(ids)) \o " " \o o.resourceType
    \o Plural(Len(ids)) \o (IF withId THEN " (ID: " \o IdText(ids[1]) \o ")" ELSE "")

\* C18 as stated: with the summary omitted the summary is
\* "{Verb} {count} {resourceType}" plus "s" when count is not 1, and
\* " (ID: {id})" is appended exactly when the list holds exactly one ID.
C18_IdAppendedForOneId ==
  (BuiltMutation /\ builderOptions.summary = Undef) =>
    LET ids == builderResponse.body.affected.ids
    IN builderResponse.body.summary = DerivedSummary(builderOptions, ids, Len(ids) = 1)

\* C18 amended: " (ID: {id})" is appended exactly when the list holds exactly
\* one ID and that ID is a non-empty string.
C18_IdAppendedForOneNonEmptyId ==
  (BuiltMutation /\ builderOptions.summary = Undef) =>
    LET ids == builderResponse.body.affected.ids
    IN builderResponse.body.summary =
         DerivedSummary(builderOptions, ids,
                        Len(ids) = 1 /\ ids[1] # Undef /\ ids[1] # Str(""))

C18_Witness ==
  /\ BuiltMutation /\ builderOptions.summary = Undef
  /\ builderOptions.operation = "delete"
  /\ builderOptions.resourceIds = Arr(<<Str("")>>)
  /\ builderResponse.body.summary = "Deleted 1 " \o builderOptions.resourceType

\* C19: with the summary omitted buildQueryResponse derives
\* "Retrieved {N} {resourceType}" plus "s" when N is not 1, N being
\* metadata.count if given, else the length of a list, else 1.
C19_QuerySummary ==
  (BuiltQuery /\ builderOptions.summary = Undef) =>
    LET o == builderOptions
        given == o.metadata # Undef /\ "count" \in DOMAIN o.metadata
        N == IF given THEN o.metadata["count"].n
             ELSE IF o.data.t = "array" THEN Len(o.data.a) ELSE 1
    IN /\ builderResponse.body.summary =
            "Retrieved " \o ToString(N) \o " " \o o.resourceType \o Plural(N)
       /\ (~given /\ o.data = Arr(<<>>)) =>
            builderResponse.body.summary = "Retrieved 0 " \o o.resourceType \o "s"
       /\ (~given /\ o.data.t = "object") =>
            builderResponse.body.summary = "Retrieved 1 " \o o.resourceType

C19_Witness ==
  /\ BuiltQuery /\ builderOptions.summary = Undef
  /\ builderOptions.metadata = ("count" :> Num(0))
  /\ builderOptions.data.t = "array" /\ Len(builderOptions.data.a) = 2
  /\ builderResponse.body.summary = "Retrieved 0 budgets"

\* ------------------------------------------------------------------------
\* Amount rendering (utils.ts)
\* ------------------------------------------------------------------------
TwoDigits(n) == (IF n < 10 THEN "0" ELSE "") \o ToString(n)

ThreeDigits(n) == (IF n < 100 THEN "0" ELSE "") \o TwoDigits(n)

\* a currency rendering of an amount in cents: "$25.50", "-$50.00", "$1,234.56"
formatAmount(cents) ==
  LET a == IF cents < 0 THEN -cents ELSE cents
      dollars == a \div 100
  IN (IF cents < 0 THEN "-" ELSE "") \o "$"
       \o (IF dollars >= 1000
           THEN ToString(dollars \div 1000) \o "," \o ThreeDigits(dollars % 1000)
           ELSE ToString(dollars))
       \o "." \o TwoDigits(a % 100)

\* ------------------------------------------------------------------------
\* Entity lookup (core/transactions/entity-lookup.ts)
\* ------------------------------------------------------------------------
ERR_ACCOUNT_NOT_FOUND(accountId) == "Account with ID " \o accountId \o " not found"
ERR_ACCOUNT_CLOSED(name) == "Account " \o name \o " is closed"
ERR_CATEGORY_NOT_FOUND(name) == "Category '" \o name \o "' not found"

\* list.find(pred), idx being the indices that match: the first of them,
\* 0 if there is none
FindIndex(idx) == IF idx = {} THEN 0 ELSE CHOOSE i \in idx : \A j \in idx : i <= j

\* faulty variant: the closed flag is not looked at
validateAccount_ignoreClosed(accountList, accountId) ==
  LET i == FindIndex({k \in DOMAIN accountList : accountList[k].id = accountId})
  IN IF i = 0 THEN [throws |-> TRUE, error |-> ERR_ACCOUNT_NOT_FOUND(accountId)]
     ELSE [throws |-> FALSE]

\* validateAccount after getAccounts() has resolved to `accountList`
validateAccount(accountList, accountId) ==
  LET i == FindIndex({k \in DOMAIN accountList : accountList[k].id = accountId})
  IN IF i = 0 THEN [throws |-> TRUE, error |-> ERR_ACCOUNT_NOT_FOUND(accountId)]
     ELSE IF accountList[i].closed
     THEN [throws |-> TRUE, error |-> ERR_ACCOUNT_CLOSED(accountList[i].name)]
     ELSE [throws |-> FALSE]

\* name.toLowerCase(), on the names of the domain
toLowerCase(name) ==
  CASE name = "GROCERIES" -> "groceries"
    [] name = "Groceries" -> "groceries"
    [] name = "Whole Foods" -> "whole foods"
    [] name = "New Restaurant" -> "new restaurant"
    [] name = "NonExistent" -> "nonexistent"
    [] OTHER -> name

\* findCategoryByName / the payee search of ensurePayeeExists, after the
\* list has been fetched: the index of the match, 0 for undefined
findByName(list, name) ==
  FindIndex({k \in DOMAIN list : toLowerCase(list[k].name) = toLowerCase(name)})

\* ------------------------------------------------------------------------
\* create-transaction: domains
\* ------------------------------------------------------------------------
Null == [t |-> "null"]

ERR_ACCOUNT_ID == "accountId is required and must be a string"
ERR_DATE == "date is required and must be a string (YYYY-MM-DD)"
ERR_AMOUNT == "amount is required and must be a number"
ERR_DATE_FORMAT == "date must be in YYYY-MM-DD format"

\* the dates of the domain that /^\d{4}-\d{2}-\d{2}$/ matches
IsoDates == {"2023-12-15"}

OpenAccount == [id |-> "account-1", name |-> "Checking", closed |-> FALSE]
ClosedAccount == [id |-> "account-2", name |-> "Old Checking", closed |-> TRUE]

\* what the budget holds when the tool is called
EngineStates ==
  [ accounts : { <<>>, <<OpenAccount>>, <<OpenAccount, ClosedAccount>> },
    payees : { <<[id |-> "payee-1", name |-> "Whole Foods"]>> },
    categories : { <<[id |-> "cat-1", name |-> "Groceries"]>> } ]

CreateSubs ==
  { Undef,
    Arr(<<[amount |-> Num(10500), categoryId |-> Str("cat-1"), notes |-> Undef],
          [amount |-> Num(15000), categoryId |-> Undef, notes |-> Str("Gas")]>>) }

\* raw arguments of create-transaction
CreateArgObjects ==
  { Obj(r) : r \in
    [ accountId : {Undef, Str("account-1"), Str("account-2"), Str("nonexistent")},
      date : {Undef, Str("2023-12-15"), Str("15/12/2023")},
      amount : {Undef, Num(25500), Num(-50000)},
      payeeId : {Undef, Str("payee-123")},
      categoryId : {Undef, Str("cat-456")},
      notes : {Undef, Str("Test transaction")},
      cleared : {Undef, Bool(TRUE), Bool(FALSE)},
      subtransactions : CreateSubs ] }

\* ------------------------------------------------------------------------
\* create-transaction: input parser
\* ------------------------------------------------------------------------
parseCreateSub(sub) ==
  [amount |-> IF TypeOf(sub.amount) = "number" THEN sub.amount ELSE Num(0),
   categoryId |-> IF TypeOf(sub.categoryId) = "string" THEN sub.categoryId ELSE Str(""),
   notes |-> IF TypeOf(sub.notes) = "string" THEN sub.notes ELSE Undef]

parseCreate(args) ==
  IF Falsy(args) \/ TypeOf(args) # "object"
  THEN [ok |-> FALSE, error |-> ERR_ARGS]
  ELSE LET a == args.o IN
    IF Falsy(a.accountId) \/ TypeOf(a.accountId) # "string"
    THEN [ok |-> FALSE, error |-> ERR_ACCOUNT_ID]
    ELSE IF Falsy(a.date) \/ TypeOf(a.date) # "string"
    THEN [ok |-> FALSE, error |-> ERR_DATE]
    ELSE IF a.amount = Undef \/ TypeOf(a.amount) # "number"
    THEN [ok |-> FALSE, error |-> ERR_AMOUNT]
    ELSE IF a.date.s \notin IsoDates
    THEN [ok |-> FALSE, error |-> ERR_DATE_FORMAT]
    ELSE [ok |-> TRUE,
          value |->
            [accountId |-> a.accountId,
             date |-> a.date,
             amount |-> a.amount,
             payeeId |-> IF TypeOf(a.payeeId) = "string" THEN a.payeeId ELSE Undef,
             categoryId |-> IF TypeOf(a.categoryId) = "string" THEN a.categoryId ELSE Undef,
             notes |-> IF TypeOf(a.notes) = "string" THEN a.notes ELSE Undef,
             cleared |-> IF TypeOf(a.cleared) = "boolean" THEN a.cleared ELSE Bool(FALSE),
             subtransactions |->
               IF a.subtransactions.t = "array"
               THEN Arr([i \in DOMAIN a.subtransactions.a |->
                           parseCreateSub(a.subtransactions.a[i])])
               ELSE Undef]]

\* ------------------------------------------------------------------------
\* create-transaction: data fetcher and handler
\* ------------------------------------------------------------------------
\* the transaction object createTransaction prepares
transactionOf(input) ==
  [date |-> input.date,
   amount |-> Num(convertToCents(input.amount.n)),
   payee |-> OrElse(input.payeeId, Null),
   category |-> OrElse(input.categoryId, Null),
   notes |-> OrElse(input.notes, Str("")),
   cleared |-> IF input.cleared = Undef THEN Bool(FALSE) ELSE input.cleared,
   subtransactions |->
     IF input.subtransactions # Undef
     THEN Arr([i \in DOMAIN input.subtransactions.a |->
                 LET sub == input.subtransactions.a[i] IN
                 [amount |-> Num(convertToCents(sub.amount.n)),
                  category |-> sub.categoryId,
                  notes |-> OrElse(sub.notes, Str(""))]])
     ELSE Undef]

\* v ?? undefined
NullToUndef(v) == IF v = Null THEN Undef ELSE v

\* importTransactions of actual-api.ts: the payload handed to the engine
importPayload(accountId, t) ==
  [account |-> accountId,
   date |-> t.date,
   amount |-> t.amount,
   payee |-> NullToUndef(t.payee),
   category |-> NullToUndef(t.category),
   notes |-> t.notes,
   cleared |-> t.cleared,
   subtransactions |->
     IF t.subtransactions # Undef
     THEN Arr([i \in DOMAIN t.subtransactions.a |->
                 LET st == t.subtransactions.a[i] IN
                 [amount |-> st.amount, category |-> NullToUndef(st.category),
                  notes |-> st.notes]])
     ELSE Undef]

\* importTransactions of actual-api.ts: result.added[0], else result.updated[0]
importedId(outcome) ==
  IF outcome = "added" THEN Str("txn-123")
  ELSE IF outcome = "updated" THEN Str("txn-old")
  ELSE Undef

EngineCall(name, target, data) == [call |-> name, target |-> target, data |-> data]

MutatingCalls ==
  {"api.createPayee", "api.createCategory", "api.addTransactions",
   "api.importTransactions", "api.updateTransaction"}

\* the positions of the mutating calls in the log
Mutations == {i \in DOMAIN engineLog : engineLog[i].call \in MutatingCalls}

\* the newValues the handler reports
newValuesOf(input, transactionId) ==
  LET base == ("transactionId" :> transactionId)
                @@ ("date" :> input.date)
                @@ ("amount" :> Str(formatAmount(convertToCents(input.amount.n))))
                @@ ("accountId" :> input.accountId)
                @@ ("status" :> Str(IF ~Falsy(input.cleared) THEN "Cleared" ELSE "Pending"))
      Opt(key, v) == IF ~Falsy(v) THEN (key :> v) ELSE <<>>
  IN base @@ Opt("payeeId", input.payeeId) @@ Opt("categoryId", input.categoryId)
       @@ Opt("notes", input.notes)

\* the envelope the handler returns after the transaction was created
createHandlerResponse(input, transactionId) ==
  buildMutationResponse(
    [operation |-> "create",
     resourceType |-> "transaction",
     resourceIds |-> transactionId,
     summary |-> Undef,
     changes |-> Undef,
     metadata |-> ("changes" :> Obj([newValues |-> newValuesOf(input, transactionId)]))])

CreateFinish(res) == createResult' = res /\ createPc' = "done"

\* validateAccount has returned or thrown: what it made the engine do
Validated(outcome) ==
  locals' = [locals EXCEPT
               !.validation = IF outcome.throws THEN outcome.error ELSE "passed",
               !.callsAtValidation = engineLog]

InitCreateWith(argSet) ==
  /\ InitFor({}, {})
  /\ enableWrite = TRUE
  /\ BuilderIdle /\ OthersIdle
  /\ createArgs \in argSet
  /\ createInput = Undef
  /\ createPc = "start"
  /\ locals = [transactionID |-> Undef, validation |-> "none", callsAtValidation |-> <<>>,
               payeeId |-> Undef, createdPayee |-> FALSE, categoryId |-> Undef]
  /\ engineData \in EngineStates
  /\ engineLog = <<>>
  /\ createResult = Undef

InitCreate == InitCreateWith(CreateArgObjects \cup {Undef})

\* handler: parse, then createTransaction up to the getAccounts() of
\* validateAccount
CreateHandler ==
  /\ createPc = "start"
  /\ LET parsed == parseCreate(createArgs) IN
     IF ~parsed.ok
     THEN /\ CreateFinish(errorFromCatch(parsed.error))
          /\ UNCHANGED <<createInput, engineLog>>
     ELSE /\ createInput' = parsed.value
          /\ engineLog' = Append(engineLog, EngineCall("api.getAccounts", Undef, Undef))
          /\ createPc' = "api_getAccounts"
          /\ UNCHANGED createResult
  /\ UNCHANGED <<otherVars, serverVars, enableWrite, builderVars, createArgs, locals, engineData>>

\* faulty variant: the cleared update is issued unless cleared is true
FollowUp_unlessCleared(after) ==
  LET input == createInput
      id == locals'.transactionID
  IN IF after = "import" /\ ~Falsy(input.categoryId) /\ ~Falsy(input.payeeId)
     THEN /\ engineLog' = Append(engineLog,
                                 EngineCall("api.updateTransaction", id,
                                            Obj([category |-> input.categoryId])))
          /\ createPc' = "api_updateCategory"
          /\ UNCHANGED createResult
     ELSE IF after # "cleared" /\ input.cleared # Bool(TRUE)
     THEN /\ engineLog' = Append(engineLog,
                                 EngineCall("api.updateTransaction", id,
                                            Obj([cleared |-> Bool(FALSE)])))
          /\ createPc' = "api_updateCleared"
          /\ UNCHANGED createResult
     ELSE /\ CreateFinish(createHandlerResponse(input, id))
          /\ UNCHANGED engineLog

\* the follow-up updates of createTransaction, then the handler's response
FollowUp(after) ==
  LET input == createInput
      id == locals'.transactionID
  IN IF after = "import" /\ ~Falsy(input.categoryId) /\ ~Falsy(input.payeeId)
     THEN /\ engineLog' = Append(engineLog,
                                 EngineCall("api.updateTransaction", id,
                                            Obj([category |-> input.categoryId])))
          /\ createPc' = "api_updateCategory"
          /\ UNCHANGED createResult
     ELSE IF after # "cleared" /\ input.cleared = Bool(FALSE)
     THEN /\ engineLog' = Append(engineLog,
                                 EngineCall("api.updateTransaction", id,
                                            Obj([cleared |-> Bool(FALSE)])))
          /\ createPc' = "api_updateCleared"
          /\ UNCHANGED createResult
     ELSE /\ CreateFinish(createHandlerResponse(input, id))
          /\ UNCHANGED engineLog

\* api.getAccounts() settles: the checks of validateAccount, then the
\* transaction object and importTransactions
CreateGetAccountsReturn ==
  /\ createPc = "api_getAccounts"
  /\ UNCHANGED <<otherVars, serverVars, enableWrite, builderVars, createArgs, createInput, engineData>>
  /\ \E ok \in BOOLEAN :
       IF ~ok
       THEN /\ CreateFinish(errorFromCatch(ERR_ENGINE))
            /\ UNCHANGED <<locals, engineLog>>
       ELSE LET outcome == validateAccount(engineData.accounts, createInput.accountId.s) IN
            /\ Validated(outcome)
            /\ IF outcome.throws
               THEN /\ CreateFinish(errorFromCatch(outcome.error))
                    /\ UNCHANGED engineLog
               ELSE /\ engineLog' =
                         Append(engineLog,
                                EngineCall("api.importTransactions", createInput.accountId,
                                           Obj(importPayload(createInput.accountId,
                                                             transactionOf(createInput)))))
                    /\ createPc' = "api_importTransactions"
                    /\ UNCHANGED createResult

\* api.importTransactions() settles
CreateImportReturn ==
  /\ createPc = "api_importTransactions"
  /\ UNCHANGED <<otherVars, serverVars, enableWrite, builderVars, createArgs, createInput, engineData>>
  /\ \E outcome \in {"throws", "added", "updated", "none"} :
       IF outcome = "throws"
       THEN /\ CreateFinish(errorFromCatch(ERR_ENGINE))
            /\ UNCHANGED <<locals, engineLog>>
       ELSE /\ locals' = [locals EXCEPT !.transactionID = importedId(outcome)]
            /\ FollowUp("import")

\* api.updateTransaction(transactionID, { category }) settles
CreateUpdateCategoryReturn ==
  /\ createPc = "api_updateCategory"
  /\ UNCHANGED <<otherVars, serverVars, enableWrite, builderVars, createArgs, createInput, engineData>>
  /\ UNCHANGED locals
  /\ \E ok \in BOOLEAN :
       IF ok THEN FollowUp("category")
       ELSE /\ CreateFinish(errorFromCatch(ERR_ENGINE))
            /\ UNCHANGED engineLog

\* api.updateTransaction(transactionID, { cleared: false }) settles
CreateUpdateClearedReturn ==
  /\ createPc = "api_updateCleared"
  /\ UNCHANGED <<otherVars, serverVars, enableWrite, builderVars, createArgs, createInput, engineData>>
  /\ UNCHANGED locals
  /\ \E ok \in BOOLEAN :
       IF ok THEN FollowUp("cleared")
       ELSE /\ CreateFinish(errorFromCatch(ERR_ENGINE))
            /\ UNCHANGED engineLog

NextCreate ==
  \/ CreateHandler
  \/ CreateGetAccountsReturn
  \/ CreateImportReturn
  \/ CreateUpdateCategoryReturn
  \/ CreateUpdateClearedReturn

SpecCreate == InitCreate /\ [][NextCreate]_vars

\* ------------------------------------------------------------------------
\* create-transaction by names: payee and category are given by name, the
\* payee is created when it does not exist
\* ------------------------------------------------------------------------
CreateByNameArgObjects ==
  { Obj(r) : r \in
    [ accountId : {Undef, Str("account-1"), Str("account-2"), Str("nonexistent")},
      date : {Str("2023-12-15"), Str("15/12/2023")},
      amount : {Undef, Num(25500)},
      payeeName : {Undef, Str("Whole Foods"), Str("New Restaurant")},
      categoryName : {Undef, Str("GROCERIES"), Str("NonExistent")},
      notes : {Undef, Str("Test transaction")},
      cleared : {Undef, Bool(TRUE), Bool(FALSE)},
      subtransactions : {Undef} ] }

parseCreateByName(args) ==
  IF Falsy(args) \/ TypeOf(args) # "object"
  THEN [ok |-> FALSE, error |-> ERR_ARGS]
  ELSE LET a == args.o IN
    IF Falsy(a.accountId) \/ TypeOf(a.accountId) # "string"
    THEN [ok |-> FALSE, error |-> ERR_ACCOUNT_ID]
    ELSE IF Falsy(a.date) \/ TypeOf(a.date) # "string"
    THEN [ok |-> FALSE, error |-> ERR_DATE]
    ELSE IF a.amount = Undef \/ TypeOf(a.amount) # "number"
    THEN [ok |-> FALSE, error |-> ERR_AMOUNT]
    ELSE IF a.date.s \notin IsoDates
    THEN [ok |-> FALSE, error |-> ERR_DATE_FORMAT]
    ELSE [ok |-> TRUE,
          value |->
            [accountId |-> a.accountId,
             date |-> a.date,
             amount |-> a.amount,
             payeeName |-> IF TypeOf(a.payeeName) = "string" THEN a.payeeName ELSE Undef,
             categoryName |->
               IF TypeOf(a.categoryName) = "string" THEN a.categoryName ELSE Undef,
             notes |-> IF TypeOf(a.notes) = "string" THEN a.notes ELSE Undef,
             cleared |-> IF TypeOf(a.cleared) = "boolean" THEN a.cleared ELSE Bool(FALSE),
             subtransactions |-> Undef]]

\* the transaction object, payee and category being the IDs resolved so far
transactionByNameOf(input, l) ==
  [date |-> input.date,
   amount |-> Num(convertToCents(input.amount.n)),
   payee |-> OrElse(l.payeeId, Null),
   category |-> OrElse(l.categoryId, Null),
   notes |-> OrElse(input.notes, Str("")),
   cleared |-> IF input.cleared = Undef THEN Bool(FALSE) ELSE input.cleared,
   subtransactions |-> Undef]

success(text) == [isError |-> FALSE, text |-> text]

\* CreateTransactionReportGenerator.generate
generate(input, createdPayee) ==
  "# Transaction Created Successfully\n\n"
    \o "## Transaction Details\n\n"
    \o "- **Date**: " \o input.date.s \o "\n"
    \o "- **Amount**: " \o formatAmount(convertToCents(input.amount.n)) \o "\n"
    \o "- **Account ID**: " \o input.accountId.s \o "\n"
    \o (IF ~Falsy(input.payeeName)
        THEN "- **Payee**: " \o input.payeeName.s
               \o (IF createdPayee THEN " *(newly created)*" ELSE "") \o "\n"
        ELSE "")
    \o (IF ~Falsy(input.categoryName)
        THEN "- **Category**: " \o input.categoryName.s \o "\n" ELSE "")
    \o (IF ~Falsy(input.notes) THEN "- **Notes**: " \o input.notes.s \o "\n" ELSE "")
    \o "- **Status**: " \o (IF ~Falsy(input.cleared) THEN "Cleared" ELSE "Pending") \o "\n\n"
    \o (IF createdPayee
        THEN "## Entities Created\n\n"
               \o (IF ~Falsy(input.payeeName)
                   THEN "- Created new payee: **" \o input.payeeName.s \o "**\n" ELSE "")
               \o "\n"
        ELSE "")
    \o "The transaction has been successfully added to your budget."

InitCreateByName == InitCreateWith(CreateByNameArgObjects \cup {Undef})

ByNameHandler ==
  /\ createPc = "start"
  /\ LET parsed == parseCreateByName(createArgs) IN
     IF ~parsed.ok
     THEN /\ CreateFinish(errorFromCatch(parsed.error))
          /\ UNCHANGED <<createInput, engineLog>>
     ELSE /\ createInput' = parsed.value
          /\ engineLog' = Append(engineLog, EngineCall("api.getAccounts", Undef, Undef))
          /\ createPc' = "api_getAccounts"
          /\ UNCHANGED createResult
  /\ UNCHANGED <<otherVars, serverVars, enableWrite, builderVars, createArgs, locals, engineData>>

\* the transaction object is prepared and importTransactions is called
ByNameImportStep(l) ==
  /\ engineLog' =
       Append(engineLog,
              EngineCall("api.importTransactions", createInput.accountId,
                         Obj(importPayload(createInput.accountId,
                                           transactionByNameOf(createInput, l)))))
  /\ createPc' = "api_importTransactions"
  /\ UNCHANGED createResult

\* `if (input.categoryName)`: findCategoryByName up to its getCategories()
ByNameCategoryStep(l) ==
  IF ~Falsy(createInput.categoryName)
  THEN /\ engineLog' = Append(engineLog, EngineCall("api.getCategories", Undef, Undef))
       /\ createPc' = "api_getCategories"
       /\ UNCHANGED createResult
  ELSE ByNameImportStep(l)

\* api.getAccounts() settles: the checks of validateAccount, then
\* ensurePayeeExists up to its getPayees()
ByNameGetAccountsReturn ==
  /\ createPc = "api_getAccounts"
  /\ UNCHANGED <<otherVars, serverVars, enableWrite, builderVars, createArgs, createInput, engineData>>
  /\ \E ok \in BOOLEAN :
       IF ~ok
       THEN /\ CreateFinish(errorFromCatch(ERR_ENGINE))
            /\ UNCHANGED <<locals, engineLog>>
       ELSE LET outcome == validateAccount(engineData.accounts, createInput.accountId.s) IN
            /\ Validated(outcome)
            /\ IF outcome.throws
               THEN /\ CreateFinish(errorFromCatch(outcome.error))
                    /\ UNCHANGED engineLog
               ELSE IF ~Falsy(createInput.payeeName)
               THEN /\ engineLog' = Append(engineLog,
                                           EngineCall("api.getPayees", Undef, Undef))
                    /\ createPc' = "api_getPayees"
                    /\ UNCHANGED createResult
               ELSE ByNameCategoryStep(locals)

\* api.getPayees() settles: the payee is found, or createPayee is called
ByNameGetPayeesReturn ==
  /\ createPc = "api_getPayees"
  /\ UNCHANGED <<otherVars, serverVars, enableWrite, builderVars, createArgs, createInput, engineData>>
  /\ \E ok \in BOOLEAN :
       IF ~ok
       THEN /\ CreateFinish(errorFromCatch(ERR_ENGINE))
            /\ UNCHANGED <<locals, engineLog>>
       ELSE LET i == findByName(engineData.payees, createInput.payeeName.s) IN
            IF i # 0
            THEN LET l == [locals EXCEPT !.payeeId = Str(engineData.payees[i].id)] IN
                 /\ locals' = l
                 /\ ByNameCategoryStep(l)
            ELSE /\ engineLog' =
                      Append(engineLog,
                             EngineCall("api.createPayee", Undef,
                                        Obj([name |-> createInput.payeeName])))
                 /\ createPc' = "api_createPayee"
                 /\ UNCHANGED <<locals, createResult>>

\* api.createPayee() settles
ByNameCreatePayeeReturn ==
  /\ createPc = "api_createPayee"
  /\ UNCHANGED <<otherVars, serverVars, enableWrite, builderVars, createArgs, createInput, engineData>>
  /\ \E ok \in BOOLEAN :
       IF ~ok
       THEN /\ CreateFinish(errorFromCatch(ERR_ENGINE))
            /\ UNCHANGED <<locals, engineLog>>
       ELSE LET l == [locals EXCEPT !.payeeId = Str("payee-2"), !.createdPayee = TRUE] IN
            /\ locals' = l
            /\ ByNameCategoryStep(l)

\* api.getCategories() settles: the category is found, or the call fails
ByNameGetCategoriesReturn ==
  /\ createPc = "api_getCategories"
  /\ UNCHANGED <<otherVars, serverVars, enableWrite, builderVars, createArgs, createInput, engineData>>
  /\ \E ok \in BOOLEAN :
       IF ~ok
       THEN /\ CreateFinish(errorFromCatch(ERR_ENGINE))
            /\ UNCHANGED <<locals, engineLog>>
       ELSE LET i == findByName(engineData.categories, createInput.categoryName.s) IN
            IF i = 0
            THEN /\ CreateFinish(errorFromCatch(
                                   ERR_CATEGORY_NOT_FOUND(createInput.categoryName.s)))
                 /\ UNCHANGED <<locals, engineLog>>
            ELSE LET l == [locals EXCEPT !.categoryId = Str(engineData.categories[i].id)] IN
                 /\ locals' = l
                 /\ ByNameImportStep(l)

\* the follow-up updates, then the handler's report
ByNameFollowUp(after) ==
  LET input == createInput
      id == locals'.transactionID
  IN IF after = "import" /\ ~Falsy(input.categoryName) /\ ~Falsy(locals.payeeId)
     THEN /\ engineLog' = Append(engineLog,
                                 EngineCall("api.updateTransaction", id,
                                            Obj([category |-> locals.categoryId])))
          /\ createPc' = "api_updateCategory"
          /\ UNCHANGED createResult
     ELSE IF after # "cleared" /\ input.cleared = Bool(FALSE)
     THEN /\ engineLog' = Append(engineLog,
                                 EngineCall("api.updateTransaction", id,
                                            Obj([cleared |-> Bool(FALSE)])))
          /\ createPc' = "api_updateCleared"
          /\ UNCHANGED createResult
     ELSE /\ CreateFinish(success(generate(input, locals.createdPayee)))
          /\ UNCHANGED engineLog

ByNameImportReturn ==
  /\ createPc = "api_importTransactions"
  /\ UNCHANGED <<otherVars, serverVars, enableWrite, builderVars, createArgs, createInput, engineData>>
  /\ \E outcome \in {"throws", "added", "updated", "none"} :
       IF outcome = "throws"
       THEN /\ CreateFinish(errorFromCatch(ERR_ENGINE))
            /\ UNCHANGED <<locals, engineLog>>
       ELSE /\ locals' = [locals EXCEPT !.transactionID = importedId(outcome)]
            /\ ByNameFollowUp("import")

ByNameUpdateCategoryReturn ==
  /\ createPc = "api_updateCategory"
  /\ UNCHANGED <<otherVars, serverVars, enableWrite, builderVars, createArgs, createInput, engineData>>
  /\ UNCHANGED locals
  /\ \E ok \in BOOLEAN :
       IF ok THEN ByNameFollowUp("category")
       ELSE /\ CreateFinish(errorFromCatch(ERR_ENGINE))
            /\ UNCHANGED engineLog

ByNameUpdateClearedReturn ==
  /\ createPc = "api_updateCleared"
  /\ UNCHANGED <<otherVars, serverVars, enableWrite, builderVars, createArgs, createInput, engineData>>
  /\ UNCHANGED locals
  /\ \E ok \in BOOLEAN :
       IF ok THEN ByNameFollowUp("cleared")
       ELSE /\ CreateFinish(errorFromCatch(ERR_ENGINE))
            /\ UNCHANGED engineLog

NextCreateByName ==
  \/ ByNameHandler
  \/ ByNameGetAccountsReturn
  \/ ByNameGetPayeesReturn
  \/ ByNameCreatePayeeReturn
  \/ ByNameGetCategoriesReturn
  \/ ByNameImportReturn
  \/ ByNameUpdateCategoryReturn
  \/ ByNameUpdateClearedReturn

SpecCreateByName == InitCreateByName /\ [][NextCreateByName]_vars

\* the messages of the validation and referential errors of create-transaction
ValidationOrReferential(message) ==
  \/ message \in {ERR_ARGS, ERR_ACCOUNT_ID, ERR_DATE, ERR_AMOUNT, ERR_DATE_FORMAT}
  \/ \E id \in {"account-1", "account-2", "nonexistent"} :
       message = ERR_ACCOUNT_NOT_FOUND(id)
  \/ \E a \in {OpenAccount, ClosedAccount} : message = ERR_ACCOUNT_CLOSED(a.name)
  \/ \E name \in {"GROCERIES", "NonExistent"} : message = ERR_CATEGORY_NOT_FOUND(name)

\* C13: a create-transaction call that fails with a validation or
\* referential error (account not found, account closed, category not found)
\* has made no mutating engine call.
C13_NoMutationBeforeReferentialError ==
  (/\ createResult # Undef
   /\ createResult.isError
   /\ ValidationOrReferential(createResult.message)) => Mutations = {}

\* what C13 says of the account errors alone
C13_AccountErrorsOnly ==
  (/\ createResult # Undef
   /\ createResult.isError
   /\ ValidationOrReferential(createResult.message)
   /\ createResult.message # ERR_CATEGORY_NOT_FOUND("NonExistent")) => Mutations = {}

\* ------------------------------------------------------------------------
\* Properties of create-transaction
\* ------------------------------------------------------------------------
CreateSucceeded == createResult # Undef /\ ~createResult.isError

\* C11: a create-transaction call with amount 25.50 and neither payee nor
\* category returns an envelope with operation "create", affected.count 1 and
\* change details whose new-value amount is "$25.50".
C11_CreateEnvelope ==
  (/\ CreateSucceeded
   /\ createArgs.o.amount = Num(25500)
   /\ createArgs.o.payeeId = Undef /\ createArgs.o.categoryId = Undef) =>
    LET body == createResult.body IN
    /\ body.operation = "create"
    /\ body.affected.count = 1
    /\ "changes" \in DOMAIN body.metadata
    /\ body.metadata["changes"].o.newValues["amount"] = Str("$25.50")

\* the part of C11 that the envelope does satisfy
C11_OperationAndCount ==
  (/\ CreateSucceeded
   /\ createArgs.o.amount = Num(25500)
   /\ createArgs.o.payeeId = Undef /\ createArgs.o.categoryId = Undef) =>
    /\ createResult.body.operation = "create"
    /\ createResult.body.affected.count = 1
    /\ newValuesOf(createInput, locals.transactionID)["amount"] = Str("$25.50")

\* C20: validateAccount fails with the not-found error when no fetched
\* account has the ID, with the closed error when the account found is
\* closed, succeeds otherwise, and has made no mutating engine call.
C20_ValidateAccount ==
  locals # Undef /\ locals.validation # "none" =>
    LET id == createInput.accountId.s
        found == {i \in DOMAIN engineData.accounts : engineData.accounts[i].id = id}
    IN /\ found = {} => locals.validation = ERR_ACCOUNT_NOT_FOUND(id)
       /\ \A i \in found :
            /\ engineData.accounts[i].closed =>
                 locals.validation = ERR_ACCOUNT_CLOSED(engineData.accounts[i].name)
            /\ ~engineData.accounts[i].closed => locals.validation = "passed"
       /\ \A i \in DOMAIN locals.callsAtValidation :
            locals.callsAtValidation[i].call \notin MutatingCalls
       /\ locals.validation # "passed" =>
            /\ Mutations = {}
            /\ createResult = errorFromCatch(locals.validation)

C20_Witness ==
  /\ locals # Undef
  /\ locals.validation = ERR_ACCOUNT_CLOSED("Old Checking")
  /\ createInput.accountId = Str("account-2")
  /\ createResult = errorFromCatch("Account Old Checking is closed")

\* ------------------------------------------------------------------------
\* The amount converter on its own: every decimal amount of at most three
\* fractional digits up to MaxAmount thousandths, converted to cents and back
\* ------------------------------------------------------------------------
MaxAmount == 10600

Amounts == -MaxAmount..MaxAmount

\* no tool invocation, builder call or create-transaction under way
ToolsIdle ==
  /\ InitFor({}, {})
  /\ enableWrite = TRUE
  /\ BuilderIdle /\ CreateIdle

toolVars == <<serverVars, enableWrite, builderVars, createVars>>

\* what the amount converter, the logger and the search never write
notAmountVars == <<toolVars, loggerVars, searchVars, sseVars>>
notLoggerVars == <<toolVars, amountVars, searchVars, sseVars>>
notSearchVars == <<toolVars, amountVars, loggerVars, sseVars>>
notSseVars == <<toolVars, amountVars, loggerVars, searchVars>>

InitAmount ==
  /\ ToolsIdle
  /\ decimalAmount \in Amounts
  /\ minorUnits = Undef
  /\ majorUnits = Undef
  /\ LoggerIdle /\ SearchIdle /\ SseIdle

ConvertToCents ==
  /\ minorUnits = Undef
  /\ minorUnits' = Num(convertToCents(decimalAmount))
  /\ UNCHANGED <<notAmountVars, decimalAmount, majorUnits>>

ConvertFromCents ==
  /\ minorUnits # Undef
  /\ majorUnits = Undef
  /\ majorUnits' = convertFromCents(minorUnits.n)
  /\ UNCHANGED <<notAmountVars, decimalAmount, minorUnits>>

NextAmount ==
  \/ ConvertToCents
  \/ ConvertFromCents

SpecAmount == InitAmount /\ [][NextAmount]_vars

\* the integer nearest to x, a tie going away from zero
RoundHalfAwayFromZero(x) ==
  IF x.neg THEN -MathRound([x EXCEPT !.neg = FALSE]) ELSE MathRound(x)

\* C21: convertToCents multiplies the amount by 100 and rounds the product
\* to the nearest integer, never truncating, an exact midpoint of the
\* product being rounded half away from zero (10.505 gives 1051, 10.504
\* gives 1050, -10.5 gives -1050).
C21_RoundsHalfAwayFromZero ==
  minorUnits # Undef =>
    /\ minorUnits.n = RoundHalfAwayFromZero(Times(ToDouble(decimalAmount), 100))
    /\ decimalAmount = 10505 => minorUnits.n = 1051
    /\ decimalAmount = 10504 => minorUnits.n = 1050
    /\ decimalAmount = -10500 => minorUnits.n = -1050

\* C22: an amount of at most two fractional digits is got back from its
\* cents: convertFromCents(convertToCents(x)) === x.
C22_RoundTrip ==
  (majorUnits # Undef /\ decimalAmount % 10 = 0) => majorUnits = ToDouble(decimalAmount)

\* a negative amount with two fractional digits has made the round trip
C22_Witness ==
  /\ decimalAmount = -10290
  /\ minorUnits = Num(-1029)
  /\ majorUnits = ToDouble(-10290)

\* ------------------------------------------------------------------------
\* Three concurrent invocations going through the lifecycle only (each
\* names an unknown tool, so that no tool handler runs)
\* ------------------------------------------------------------------------
LifeSessions == {"s1", "s2", "s3"}

LifeRequests == { [name |-> "no-such-tool", arguments |-> Undef] }

InitLife ==
  /\ InitFor(LifeSessions, LifeRequests)
  /\ enableWrite = TRUE
  /\ BuilderIdle /\ CreateIdle /\ OthersIdle

NextLife ==
  \/ \E s \in Live : Receive(s) /\ UNCHANGED restVars
  \/ \E s \in Live : InitActualApi(s) /\ UNCHANGED restVars
  \/ \E s \in Live : ApiInitReturn(s) /\ UNCHANGED restVars
  \/ \E s \in Live : ApiGetBudgetsReturn(s) /\ UNCHANGED restVars
  \/ \E s \in Live : ApiDownloadReturn(s) /\ UNCHANGED restVars
  \/ \E s \in Live : ApiCleanupReturn(s) /\ UNCHANGED restVars
  \/ \E s \in Live : Dispatch(s) /\ UNCHANGED restVars
  \/ \E s \in Live : Teardown(s) /\ UNCHANGED restVars
  \/ \E s \in Live : ApiShutdownReturn(s) /\ UNCHANGED restVars

SpecLife == InitLife /\ [][NextLife]_vars

\* ------------------------------------------------------------------------
\* Properties of the connection lifecycle
\* ------------------------------------------------------------------------
InInitActualApi(s) == pc[s] \in {"init", "init_wait", "api_getBudgets", "api_download"}

\* the step in which initActualApi returns to session s without throwing
ReturnsFromInit(s) ==
  /\ InInitActualApi(s)
  /\ pc'[s] \in {"dispatch", "fetch_build", "api_getBudgetMonth"}

\* the step in which initActualApi throws out of its wait loop
WaiterThrows(s) == pc[s] = "init_wait" /\ pc'[s] = "returned"

\* the step in which session s calls api.init()
CallsApiInit(s) == pc[s] # "api_init" /\ pc'[s] = "api_init"

\* every invocation has returned and its finally block is over
AllCompleted ==
  \A s \in Live : pc[s] = "returned" /\ tpc[s] \in {"closed", "threw"}

\* C23: whenever initActualApi returns without throwing, the engine is
\* initialized with a budget loaded at that moment, also for a caller that
\* waited for another caller's initialization.
C23_InitReturnsInitialized ==
  [][\A s \in Live :
       ReturnsFromInit(s) =>
         initialized' /\ engineInit' /\ engineBudget' = BudgetId]_vars

\* C24: a caller that waited in initActualApi fails only if an
\* initialization failed while it waited; the error of an earlier failed
\* initialization is not thrown to it.
C24_WaiterFailsOnlyWithAwaited ==
  [][\A s \in Live : WaiterThrows(s) => awaitedFailure[s]]_vars

\* C25: once every invocation has completed and none is in flight, the
\* connection is marked not initialized and no budget is recorded as loaded.
C25_TornDownAfterAll ==
  AllCompleted => ~initialized /\ currentBudgetId = NoBudget

\* C26 as stated: between any two api.init calls there is a completed
\* engine shutdown.
C26_ShutdownBetweenInitCalls == engineInitCalls <= 1

\* C26, amended: api.init is called only when no successful api.init is
\* still in effect; a second call without a completed shutdown in between
\* follows only a call that failed.
C26_NoInitWhileInEffect ==
  [][\A s \in Live : CallsApiInit(s) => ~engineInit /\ ~apiInitialized]_vars

\* api.init is called a second time with no completed shutdown since the
\* first call, which belongs to an initialization that failed
C26_Witness ==
  \E s, t \in Live :
    /\ s # t
    /\ Occurs(s, "api.init") /\ Occurs(s, "init failed")
    /\ Occurs(t, "api.init") /\ pc[t] = "api_init"
    /\ engineInitCalls = 2

\* ------------------------------------------------------------------------
\* createTransaction of the data fetcher called with an input of its own
\* type, as its tests call it (cleared may be undefined)
\* ------------------------------------------------------------------------
CreateInputs ==
  [ accountId : {Str("account-1"), Str("account-2"), Str("nonexistent")},
    date : {Str("2023-12-15")},
    amount : {Num(25500)},
    payeeId : {Undef, Str(""), Str("payee-123")},
    categoryId : {Undef, Str("cat-456")},
    notes : {Undef, Str("Test transaction")},
    cleared : {Undef, Bool(TRUE), Bool(FALSE)},
    subtransactions :
      {Undef, Arr(<<[amount |-> Num(25500), categoryId |-> Str("cat-1"), notes |-> Undef]>>)} ]

InitCreateFetcher ==
  /\ InitFor({}, {})
  /\ enableWrite = TRUE
  /\ BuilderIdle /\ OthersIdle
  /\ createArgs = Undef
  /\ createInput \in CreateInputs
  /\ createPc = "createTransaction"
  /\ locals = [transactionID |-> Undef, validation |-> "none", callsAtValidation |-> <<>>,
               payeeId |-> Undef, createdPayee |-> FALSE, categoryId |-> Undef]
  /\ engineData \in EngineStates
  /\ engineLog = <<>>
  /\ createResult = Undef

\* createTransaction up to the getAccounts() of validateAccount
CreateTransaction ==
  /\ createPc = "createTransaction"
  /\ engineLog' = Append(engineLog, EngineCall("api.getAccounts", Undef, Undef))
  /\ createPc' = "api_getAccounts"
  /\ UNCHANGED <<otherVars, serverVars, enableWrite, builderVars, createArgs, createInput,
                 locals, engineData, createResult>>

NextCreateFetcher ==
  \/ CreateTransaction
  \/ CreateGetAccountsReturn
  \/ CreateImportReturn
  \/ CreateUpdateCategoryReturn
  \/ CreateUpdateClearedReturn

SpecCreateFetcher == InitCreateFetcher /\ [][NextCreateFetcher]_vars

\* the positions of the calls of an engine function in the log
CallsOf(name) == {i \in DOMAIN engineLog : engineLog[i].call = name}

CategoryUpdates ==
  {k \in CallsOf("api.updateTransaction") : "category" \in DOMAIN engineLog[k].data.o}

ClearedUpdates ==
  {k \in CallsOf("api.updateTransaction") : "cleared" \in DOMAIN engineLog[k].data.o}

\* C27: the account is validated before the transaction is imported; every
\* follow-up update is issued after the import and targets the ID the import
\* returned; the category is re-applied exactly when a payee ID and a
\* category ID are given, and cleared is set to false exactly when the
\* input's cleared is false (not when it is undefined or true).
C27_ValidateImportThenFollowUps ==
  /\ \A i \in CallsOf("api.importTransactions") :
       /\ locals.validation = "passed"
       /\ \E j \in 1..(i - 1) : engineLog[j].call = "api.getAccounts"
       /\ \A j \in DOMAIN locals.callsAtValidation :
            locals.callsAtValidation[j].call \notin MutatingCalls
  /\ \A k \in CallsOf("api.updateTransaction") :
       /\ \E i \in 1..(k - 1) : engineLog[i].call = "api.importTransactions"
       /\ engineLog[k].target = locals.transactionID
       /\ k \in CategoryUpdates \cup ClearedUpdates
  /\ \A k \in CategoryUpdates :
       /\ engineLog[k].data = Obj([category |-> createInput.categoryId])
       /\ createInput.categoryId.t = "string" /\ createInput.payeeId.t = "string"
       /\ createInput.categoryId.s # "" /\ createInput.payeeId.s # ""
  /\ \A k \in ClearedUpdates :
       /\ engineLog[k].data = Obj([cleared |-> Bool(FALSE)])
       /\ createInput.cleared = Bool(FALSE)
       /\ \A c \in CategoryUpdates : c < k
  /\ CreateSucceeded =>
       /\ Cardinality(CallsOf("api.importTransactions")) = 1
       /\ Cardinality(CategoryUpdates) =
            (IF createInput.categoryId = Str("cat-456") /\ createInput.payeeId = Str("payee-123")
             THEN 1 ELSE 0)
       /\ Cardinality(ClearedUpdates) = (IF createInput.cleared = Bool(FALSE) THEN 1 ELSE 0)

\* a transaction was created with both follow-up updates, on the returned ID
C27_Witness ==
  /\ CreateSucceeded
  /\ createInput.cleared = Bool(FALSE)
  /\ Len(engineLog) = 4
  /\ engineLog[2].call = "api.importTransactions"
  /\ engineLog[3] = EngineCall("api.updateTransaction", Str("txn-123"),
                               Obj([category |-> Str("cat-456")]))
  /\ engineLog[4] = EngineCall("api.updateTransaction", Str("txn-123"),
                               Obj([cleared |-> Bool(FALSE)]))

\* a transaction was created with cleared undefined: no cleared update
C27_WitnessUndefined ==
  /\ CreateSucceeded
  /\ createInput.cleared = Undef
  /\ ClearedUpdates = {}


\* ------------------------------------------------------------------------
\* The logger (core/logger.ts)
\* ------------------------------------------------------------------------
MaxLogCalls == 3

\* the level methods exercised, the logger names and the servers
LogLevels == {"error", "info", "debug"}
LoggerNames == {"main", "custom"}
LevelKeys == {".", "custom"}
Servers == {"server1", "server2"}

\* logLevels[loggerName] ?? logLevels['.']
getEffectiveLogLevel(loggerName) ==
  IF loggerName \in DOMAIN logLevels THEN Num(logLevels[loggerName])
  ELSE IF "." \in DOMAIN logLevels THEN Num(logLevels["."])
  ELSE Undef

\* LogLevelMap[level] <= effective level; a comparison with undefined is false
shouldLog(lvl, loggerName) ==
  /\ getEffectiveLogLevel(loggerName) # Undef
  /\ LogLevelMap[lvl] <= getEffectiveLogLevel(loggerName).n

\* the sendLoggingMessage calls that sending the messages of queue, in order,
\* to srv makes: sendLog drops those the level in force does not admit
RECURSIVE Flush(_, _)
Flush(queue, srv) ==
  IF queue = <<>> THEN <<>>
  ELSE LET message == Head(queue)
       IN (IF shouldLog(message.level, message.logger)
           THEN <<[to |-> srv, message |-> message]>> ELSE <<>>)
          \o Flush(Tail(queue), srv)

\* sendLog(level, logger, data)
sendLog(lvl, loggerName, payload) ==
  LET message == [level |-> lvl, logger |-> loggerName, data |-> payload]
  IN IF ~shouldLog(lvl, loggerName) THEN UNCHANGED <<logQueue, loggingMessages>>
     ELSE IF server # NoServer
       THEN /\ loggingMessages' = Append(loggingMessages, [to |-> server, message |-> message])
            /\ UNCHANGED logQueue
     ELSE IF allowConsole THEN UNCHANGED <<logQueue, loggingMessages>>
     ELSE /\ logQueue' = Append(logQueue, message)
          /\ UNCHANGED loggingMessages

\* debug / info / error (logger, data): the data is the number of
\* the call, so that every message is different
Log(lvl, loggerName) ==
  /\ logCalls < MaxLogCalls
  /\ logCalls' = logCalls + 1
  /\ sendLog(lvl, loggerName, logCalls + 1)
  /\ UNCHANGED <<notLoggerVars, server, logLevels, allowConsole>>

\* connect(server)
Connect(srv) ==
  /\ server' = srv
  /\ loggingMessages' = loggingMessages \o Flush(logQueue, srv)
  /\ logQueue' = <<>>
  /\ UNCHANGED <<notLoggerVars, logLevels, allowConsole, logCalls>>

\* disconnect()
Disconnect ==
  /\ server' = NoServer
  /\ logQueue' = <<>>
  /\ UNCHANGED <<notLoggerVars, logLevels, allowConsole, loggingMessages, logCalls>>

\* setConsoleEnabled(enabled)
SetConsoleEnabled(enabled) ==
  /\ allowConsole' = enabled
  /\ UNCHANGED <<notLoggerVars, server, logQueue, logLevels, loggingMessages, logCalls>>

\* f with key k set to v
Put(f, k, v) == [n \in DOMAIN f \cup {k} |-> IF n = k THEN v ELSE f[n]]

\* setLevel(loggerName, level)
SetLevel(loggerName, lvl) ==
  /\ logLevels' = Put(logLevels, loggerName, LogLevelMap[lvl])
  /\ UNCHANGED <<notLoggerVars, server, logQueue, allowConsole, loggingMessages, logCalls>>

\* setLevels(levels): null deletes the entry
SetLevels(levels) ==
  /\ logLevels' =
       [n \in (DOMAIN logLevels \ {k \in DOMAIN levels : levels[k] = "null"})
                \cup {k \in DOMAIN levels : levels[k] # "null"} |->
          IF n \in DOMAIN levels THEN LogLevelMap[levels[n]] ELSE logLevels[n]]
  /\ UNCHANGED <<notLoggerVars, server, logQueue, allowConsole, loggingMessages, logCalls>>

\* the arguments of setLevels
LevelMaps ==
  UNION {[keys -> LogLevels \cup {"null"}] : keys \in SUBSET LevelKeys}

InitLogger ==
  /\ ToolsIdle
  /\ AmountIdle
  /\ LoggerIdle
  /\ SearchIdle
  /\ SseIdle

NextLogger ==
  \/ \E lvl \in LogLevels, loggerName \in LoggerNames : Log(lvl, loggerName)
  \/ \E srv \in Servers : Connect(srv)
  \/ Disconnect
  \/ \E enabled \in BOOLEAN : SetConsoleEnabled(enabled)
  \/ \E loggerName \in LevelKeys, lvl \in LogLevels : SetLevel(loggerName, lvl)
  \/ \E levels \in LevelMaps : SetLevels(levels)

SpecLogger == InitLogger /\ [][NextLogger]_vars

\* C28: a message logged while no server is connected, the console is off
\* and the level admits it is appended to the queue; connect sends every
\* queued message to the server once, in the order of the queue, and leaves
\* the queue empty.
C28_QueuedThenDeliveredOnConnect ==
  [][/\ \A lvl \in LogLevels, loggerName \in LoggerNames :
          (Log(lvl, loggerName) /\ server = NoServer /\ ~allowConsole
             /\ shouldLog(lvl, loggerName))
          => logQueue' = Append(logQueue, [level |-> lvl, logger |-> loggerName,
                                           data |-> logCalls + 1])
     /\ \A srv \in Servers :
          Connect(srv)
          => /\ loggingMessages' = loggingMessages \o [i \in 1..Len(logQueue) |->
                                   [to |-> srv, message |-> logQueue[i]]]
             /\ logQueue' = <<>>]_vars


\* ------------------------------------------------------------------------
\* search-transactions: the data fetcher
\* ------------------------------------------------------------------------
MaxPage == 3
MaxPageSize == 3
MaxCount == 7

\* strings whose characters matter are sequences of characters
LowerOf ==
  [c \in {"S", "O", "P", "s", "h", "o", "p", "e", "d", "x"} |->
     CASE c = "S" -> "s" [] c = "O" -> "o" [] c = "P" -> "p" [] OTHER -> c]

\* String.prototype.toLowerCase, on sequences of characters
lowerCase(str) == [i \in 1..Len(str) |-> LowerOf[str[i]]]

\* String.prototype.includes
includes(str, part) ==
  \E i \in 0..(Len(str) - Len(part)) : SubSeq(str, i + 1, i + Len(part)) = part

\* getPayees(): one payee has no name
SearchPayees ==
  {[id |-> "payee-1", name |-> Str(<<"S", "h", "o", "p">>)],
   [id |-> "payee-2", name |-> Str(<<"s", "h", "e", "d">>)],
   [id |-> "payee-3", name |-> Undef]}

\* payees.filter((p) => p.name?.lowerCase().includes(payeeName.lowerCase()))
matchingPayees(payeeName) ==
  {p \in SearchPayees :
     p.name # Undef /\ includes(lowerCase(p.name.s), lowerCase(payeeName.s))}

SearchInputs ==
  [payeeName : {Undef, Str(<<>>), Str(<<"s", "h">>), Str(<<"O", "P">>), Str(<<"x">>)},
   accountId : {Undef, Str("acct-1")},
   page : 1..MaxPage,
   pageSize : 1..MaxPageSize]

\* Math.ceil(a / b) for integers a >= 0 and b > 0: the double nearest to a
\* quotient that is not an integer is never an integer
MathCeilDiv(a, b) == IF a % b = 0 THEN a \div b ELSE (a \div b) + 1

\* emptyResult(page, pageSize)
emptyResult(page, pageSize) ==
  [transactions |-> <<>>,
   pagination |-> [page |-> page, pageSize |-> pageSize, totalResults |-> 0,
                   totalPages |-> 0, hasNextPage |-> FALSE, hasPreviousPage |-> FALSE],
   totalCount |-> 0]

InitSearch ==
  /\ ToolsIdle /\ AmountIdle /\ LoggerIdle /\ SseIdle
  /\ searchInput \in SearchInputs
  /\ searchPc = "fetch"
  /\ searchQuery = <<>>
  /\ totalCount = Undef
  /\ searchResult = Undef

\* fetch, up to the count query: the filters, or the empty result when the
\* payee name matches no payee
BuildSearchQuery ==
  /\ searchPc = "fetch"
  /\ LET matching == matchingPayees(searchInput.payeeName)
         payeeFilter ==
           IF Falsy(searchInput.payeeName) THEN <<>>
           ELSE <<[payee |-> {p.id : p \in matching}]>>
         accountFilter ==
           IF Falsy(searchInput.accountId) THEN <<>>
           ELSE <<[account |-> searchInput.accountId]>>
     IN IF ~Falsy(searchInput.payeeName) /\ matching = {}
        THEN /\ searchResult' = emptyResult(searchInput.page, searchInput.pageSize)
             /\ searchPc' = "returned"
             /\ UNCHANGED searchQuery
        ELSE /\ searchQuery' = payeeFilter \o accountFilter
             /\ searchPc' = "count"
             /\ UNCHANGED searchResult
  /\ UNCHANGED <<notSearchVars, searchInput, totalCount>>

\* runQuery(countQuery) returns: totalCount = countResult.data || 0
RunCountQuery(n) ==
  /\ searchPc = "count"
  /\ totalCount' = OrElse(n, Num(0))
  /\ searchPc' = "select"
  /\ UNCHANGED <<notSearchVars, searchInput, searchQuery, searchResult>>

\* runQuery(query) returns the rows from offset on, at most pageSize of them;
\* fetch maps them and returns them with the pagination metadata
RunPageQuery ==
  /\ searchPc = "select"
  /\ LET page == searchInput.page
         pageSize == searchInput.pageSize
         offset == (page - 1) * pageSize
         rows == [i \in 1..IF totalCount.n - offset < 0 THEN 0
                           ELSE IF totalCount.n - offset < pageSize
                                THEN totalCount.n - offset ELSE pageSize |->
                    offset + i]
     IN searchResult' =
          [transactions |-> rows,
           pagination |-> [page |-> page, pageSize |-> pageSize,
                           totalResults |-> totalCount.n,
                           totalPages |-> MathCeilDiv(totalCount.n, pageSize),
                           hasNextPage |-> page < MathCeilDiv(totalCount.n, pageSize),
                           hasPreviousPage |-> page > 1],
           totalCount |-> totalCount.n]
  /\ searchPc' = "returned"
  /\ UNCHANGED <<notSearchVars, searchInput, searchQuery, totalCount>>

NextSearch ==
  \/ BuildSearchQuery
  \/ \E n \in {Undef} \cup {Num(k) : k \in 0..MaxCount} : RunCountQuery(n)
  \/ RunPageQuery

SpecSearch == InitSearch /\ [][NextSearch]_vars

\* C29: in every result of a search, totalPages is the least number of pages
\* of pageSize that hold totalResults, hasNextPage says that page is below
\* totalPages and hasPreviousPage that page is above 1; the result for a payee
\* name that matches no payee included.
C29_PaginationConsistent ==
  searchResult # Undef =>
    LET p == searchResult.pagination
    IN /\ p.totalPages * p.pageSize >= p.totalResults
       /\ (p.totalPages - 1) * p.pageSize < p.totalResults
       /\ p.hasNextPage <=> p.page < p.totalPages
       /\ p.hasPreviousPage <=> p.page > 1

\* the same for the results that fetch computes from the count query
C29_PaginationOfCountedResults ==
  (searchResult # Undef /\ totalCount # Undef) =>
    LET p == searchResult.pagination
    IN /\ p.totalPages * p.pageSize >= p.totalResults
       /\ (p.totalPages - 1) * p.pageSize < p.totalResults
       /\ p.hasNextPage <=> p.page < p.totalPages
       /\ p.hasPreviousPage <=> p.page > 1


\* ------------------------------------------------------------------------
\* The SSE endpoints (index.ts): GET /sse, POST /messages, the session table.
\* A transport is named by its session ID; the log calls of the handlers
\* write no session state and are left out.
\* ------------------------------------------------------------------------
MaxSseSessions == 3

\* the session IDs a client can post with: those of the transports, one that
\* no transport has, and none
SessionIds == 1..MaxSseSessions
PostedIds == {Num(id) : id \in SessionIds \cup {MaxSseSessions + 1}} \cup {Undef}

\* sessions.delete(sessionId)
Delete(table, key) == [k \in DOMAIN table \ {key} |-> table[k]]

\* GET /sse: the transport is created and stored under its session ID, the
\* close handler is installed and the server is connected to the transport,
\* which opens the stream; connect either resolves or rejects, and the catch
\* block answers 500
GetSse(connected) ==
  /\ sseRunning
  /\ createdSessions < MaxSseSessions
  /\ LET sessionId == createdSessions + 1
     IN /\ createdSessions' = sessionId
        /\ sessions' = Put(sessions, sessionId, [transport |-> sessionId, server |-> sessionId])
        /\ openStreams' = IF connected THEN openStreams \cup {sessionId} ELSE openStreams
  /\ UNCHANGED <<notSseVars, postResponse, sseRunning>>

\* the connection of an open stream closes: transport.onclose
StreamClosed(sessionId) ==
  /\ sseRunning
  /\ sessionId \in openStreams
  /\ openStreams' = openStreams \ {sessionId}
  /\ sessions' = Delete(sessions, sessionId)
  /\ UNCHANGED <<notSseVars, createdSessions, postResponse, sseRunning>>

\* POST /messages?sessionId=...: 400 without a session ID, 404 when the table
\* has no such session, otherwise the session's transport handles the message:
\* it answers, or it throws and the catch block answers 500
PostMessage(sessionId, accepted) ==
  /\ sseRunning
  /\ postResponse' =
       IF Falsy(sessionId)
       THEN [sessionId |-> sessionId, status |-> 400, transport |-> Undef]
       ELSE IF sessionId.n \notin DOMAIN sessions
       THEN [sessionId |-> sessionId, status |-> 404, transport |-> Undef]
       ELSE [sessionId |-> sessionId,
             status |-> IF accepted THEN 202 ELSE 500,
             transport |-> Num(sessions[sessionId.n].transport)]
  /\ UNCHANGED <<notSseVars, sessions, openStreams, createdSessions, sseRunning>>

\* SIGINT: every session of the table is closed (transport.close() calls
\* onclose) and deleted, then the process exits
Sigint ==
  /\ sseRunning
  /\ sessions' = <<>>
  /\ openStreams' = openStreams \ DOMAIN sessions
  /\ sseRunning' = FALSE
  /\ UNCHANGED <<notSseVars, createdSessions, postResponse>>

InitSse ==
  /\ ToolsIdle /\ AmountIdle /\ LoggerIdle /\ SearchIdle
  /\ SseIdle

NextSse ==
  \/ \E connected \in BOOLEAN : GetSse(connected)
  \/ \E sessionId \in SessionIds : StreamClosed(sessionId)
  \/ \E sessionId \in PostedIds, accepted \in BOOLEAN : PostMessage(sessionId, accepted)
  \/ Sigint

SpecSse == InitSse /\ [][NextSse]_vars

\* C30: the session table holds exactly the sessions whose stream is open; a
\* posted message is handled by no transport but the one of its session ID;
\* a message posted with the ID of a session whose stream is not open (it was
\* closed, or establishing it failed) is answered 404, session not found.
C30_TableIsOpenStreams ==
  /\ [](DOMAIN sessions = openStreams)
  /\ [][\A sessionId \in PostedIds, accepted \in BOOLEAN :
          PostMessage(sessionId, accepted)
          => /\ postResponse'.transport \in {Undef, sessionId}
             /\ (sessionId # Undef /\ sessionId.n \notin openStreams)
                  => postResponse'.status = 404]_vars

\* a posted message is handled by no transport but the one of its session ID
C30_OwnTransport ==
  postResponse # Undef => postResponse.transport \in {Undef, postResponse.sessionId}

\* a message posted with the ID of a session that is not in the table is
\* answered 404, and the streams that are open are in the table
C30_ClosedNotFound ==
  /\ [](openStreams \subseteq DOMAIN sessions)
  /\ [][\A sessionId \in PostedIds, accepted \in BOOLEAN :
          (PostMessage(sessionId, accepted) /\ sessionId # Undef
             /\ sessionId.n \notin DOMAIN sessions)
          => postResponse'.status = 404]_vars

====
